---- MODULE Spec2Model ----
(***************************************************************************)
(* A model of the writing assistant's suggestion pipeline:                 *)
(*   - the editor's handleContentChange and the debounced analysis of      *)
(*     SuggestionEngine (one static timer, the asynchronous timer callback *)
(*     with its two fallbacks);                                            *)
(*   - the analyze-grammar edge function (LanguageTool call, mapping of    *)
(*     the matches, the local dictionary check, the position-based         *)
(*     de-duplication);                                                    *)
(*   - the two local dictionary checks, computed character by character.   *)
(* A text is a sequence of characters (UTF-16 code units), each a string;   *)
(* offsets are 0-based as in the source.                                   *)
(***************************************************************************)
EXTENDS Integers, Sequences, FiniteSets, Bags, TLC

(***************************************************************************)
(* Bounds of the model.                                                    *)
(***************************************************************************)
\* number of handleContentChange events in one run
MaxEdits == 2
\* number of matches in one LanguageTool answer (reconciler specification)
MaxMatches == 2

(***************************************************************************)
(* Characters and strings.                                                 *)
(***************************************************************************)
Upper == <<"A","B","C","D","E","F","G","H","I","J","K","L","M","N","O","P","Q","R","S","T","U","V","W","X","Y","Z">>
Lower == <<"a","b","c","d","e","f","g","h","i","j","k","l","m","n","o","p","q","r","s","t","u","v","w","x","y","z">>
Digits == {"0","1","2","3","4","5","6","7","8","9"}

Range(s) == {s[i] : i \in 1..Len(s)}

\* \s of a JavaScript regular expression, over the characters of the model
IsWhitespace(c) == c \in {" ", "\n", "\r", "\t"}

\* \w of a JavaScript regular expression: [A-Za-z0-9_]
IsWordChar(c) == c \in Range(Upper) \cup Range(Lower) \cup Digits \cup {"_"}

\* the character class [.,!?;:"'] both dictionary checks strip
Punctuation == {".", ",", "!", "?", ";", ":", "\"", "'"}

toLowerCaseChar(c) ==
  IF c \in Range(Upper)
  THEN Lower[CHOOSE i \in 1..Len(Upper) : Upper[i] = c]
  ELSE c

\* (SubSeq makes the result an explicit sequence)
toLowerCase(s) == SubSeq([i \in 1..Len(s) |-> toLowerCaseChar(s[i])], 1, Len(s))

Min(a, b) == IF a < b THEN a ELSE b
Max(a, b) == IF a > b THEN a ELSE b

\* String.prototype.substring(a, b): both ends clamped to 0..length, swapped
\* when a > b
substring(s, a, b) ==
  LET ca == Max(0, Min(a, Len(s)))
      cb == Max(0, Min(b, Len(s)))
      lo == Min(ca, cb)
      hi == Max(ca, cb)
  IN  SubSeq(s, lo + 1, hi)

\* whether w occurs in s at 0-based position k
OccursAt(s, w, k) ==
  /\ k >= 0
  /\ k + Len(w) <= Len(s)
  /\ \A i \in 1..Len(w) : s[k + i] = w[i]

\* String.prototype.indexOf(w, from): the first position >= from, or -1
indexOf(s, w, from) ==
  LET f == Max(0, Min(from, Len(s)))
      hits == {k \in f..Len(s) : OccursAt(s, w, k)}
  IN  IF hits = {} THEN -1 ELSE CHOOSE k \in hits : \A j \in hits : k <= j

\* String.prototype.includes
includes(s, w) == indexOf(s, w, 0) # -1

\* the characters of s that are not in the set cs, in order
RECURSIVE RemoveChars(_, _)
RemoveChars(s, cs) ==
  IF s = <<>> THEN <<>>
  ELSE IF Head(s) \in cs THEN RemoveChars(Tail(s), cs)
  ELSE <<Head(s)>> \o RemoveChars(Tail(s), cs)

\* word.replace(pattern, by) with a string pattern: the first occurrence only,
\* case-sensitive
replaceFirst(s, pattern, by) ==
  LET k == indexOf(s, pattern, 0)
  IN  IF k = -1 THEN s
      ELSE SubSeq(s, 1, k) \o by \o SubSeq(s, k + Len(pattern) + 1, Len(s))

\* text.split(/\s+/): the pieces between maximal runs of whitespace, an empty
\* piece before a leading run and after a trailing one
RECURSIVE SplitFrom(_, _, _, _)
SplitFrom(s, i, cur, acc) ==
  IF i > Len(s) THEN Append(acc, cur)
  ELSE IF IsWhitespace(s[i])
       THEN LET rest == {j \in i..Len(s) : ~IsWhitespace(s[j])}
                nxt  == IF rest = {} THEN Len(s) + 1
                        ELSE CHOOSE j \in rest : \A k \in rest : j <= k
            IN  SplitFrom(s, nxt, <<>>, Append(acc, cur))
       ELSE SplitFrom(s, i + 1, Append(cur, s[i]), acc)

splitWhitespace(s) == SplitFrom(s, 1, <<>>, <<>>)

\* String.prototype.trim
RECURSIVE trimStart(_)
trimStart(s) ==
  IF s # <<>> /\ IsWhitespace(Head(s)) THEN trimStart(Tail(s)) ELSE s

RECURSIVE trimEnd(_)
trimEnd(s) ==
  IF s # <<>> /\ IsWhitespace(s[Len(s)])
  THEN trimEnd(SubSeq(s, 1, Len(s) - 1))
  ELSE s

trim(s) == trimEnd(trimStart(s))

\* content.replace(/\r\n/g, '\n').replace(/\r/g, '\n'): every CR LF pair and
\* every remaining CR becomes one LF
RECURSIVE normalizeLineEndings(_)
normalizeLineEndings(s) ==
  IF s = <<>> THEN <<>>
  ELSE IF Head(s) = "\r"
       THEN IF Len(s) >= 2 /\ s[2] = "\n"
            THEN <<"\n">> \o normalizeLineEndings(SubSeq(s, 3, Len(s)))
            ELSE <<"\n">> \o normalizeLineEndings(Tail(s))
       ELSE <<Head(s)>> \o normalizeLineEndings(Tail(s))

\* The characters of the model outside ASCII, named by their code points: the
\* combining acute accent, and the letters it composes with e and E.
CombiningAcute == "U+0301"
Precomposed == ("e" :> "U+00E9") @@ ("E" :> "U+00C9")

\* normalize('NFC') on the characters of the model: a base letter and the
\* accent that follows it become the one precomposed character.  (The texts
\* of the model have the accent after e or E only.)
RECURSIVE normalizeNFC(_)
normalizeNFC(s) ==
  IF s = <<>> THEN <<>>
  ELSE IF Len(s) >= 2 /\ s[2] = CombiningAcute /\ Head(s) \in DOMAIN Precomposed
       THEN <<Precomposed[Head(s)]>> \o normalizeNFC(SubSeq(s, 3, Len(s)))
       ELSE <<Head(s)>> \o normalizeNFC(Tail(s))

normalizeContent(s) == normalizeNFC(normalizeLineEndings(s))

(***************************************************************************)
(* The local dictionary checks.                                            *)
(***************************************************************************)
commonMisspellings ==
       (<<"t","e","h">> :> <<"t","h","e">>) @@
       (<<"a","d","n">> :> <<"a","n","d">>) @@
       (<<"r","e","c","i","e","v","e">> :> <<"r","e","c","e","i","v","e">>) @@
       (<<"s","e","p","e","r","a","t","e">> :> <<"s","e","p","a","r","a","t","e">>) @@
       (<<"o","c","c","u","r","e","d">> :> <<"o","c","c","u","r","r","e","d">>) @@
       (<<"d","e","f","i","n","a","t","e","l","y">> :> <<"d","e","f","i","n","i","t","e","l","y">>) @@
       (<<"n","e","c","c","e","s","s","a","r","y">> :> <<"n","e","c","e","s","s","a","r","y">>) @@
       (<<"b","e","g","i","n","i","n","g">> :> <<"b","e","g","i","n","n","i","n","g">>) @@
       (<<"a","c","c","o","m","o","d","a","t","e">> :> <<"a","c","c","o","m","m","o","d","a","t","e">>) @@
       (<<"e","n","v","i","r","o","m","e","n","t">> :> <<"e","n","v","i","r","o","n","m","e","n","t">>) @@
       (<<"t","o","m","m","o","r","o","w">> :> <<"t","o","m","o","r","r","o","w">>) @@
       (<<"w","i","e","r","d">> :> <<"w","e","i","r","d">>) @@
       (<<"f","r","e","i","n","d">> :> <<"f","r","i","e","n","d">>)

\* word.toLowerCase().replace(/[.,!?;:"']/g, '')
cleanWordOf(word) == RemoveChars(toLowerCase(word), Punctuation)

\* the edge function's check: whitespace-separated words, each located with
\* indexOf from the end of the previous one.  A suggestion's id is the triple
\* of its prefix, the word's index and its start.
RECURSIVE BasicFrom(_, _, _, _, _)
BasicFrom(text, words, wordIndex, currentIndex, acc) ==
  IF wordIndex > Len(words) THEN acc
  ELSE LET word      == words[wordIndex]
           cleanWord == cleanWordOf(word)
           wordStart == indexOf(text, word, currentIndex)
           wordEnd   == wordStart + Len(word)
           hit == [id |-> <<"basic-spell", wordIndex - 1, wordStart>>,
                   start_index |-> wordStart,
                   end_index |-> wordEnd,
                   issue_type |-> "spelling",
                   original_text |-> word,
                   suggested_text |->
                     replaceFirst(word, cleanWord, commonMisspellings[cleanWord])]
       IN  BasicFrom(text, words, wordIndex + 1, wordEnd,
                     IF cleanWord \in DOMAIN commonMisspellings
                     THEN Append(acc, hit) ELSE acc)

generateBasicSuggestions(text) ==
  BasicFrom(text, splitWhitespace(text), 1, 0, <<>>)

\* the client's check: the matches of /\b\w+\b/g, the maximal runs of word
\* characters.  The id's Date.now() part is left out.
RECURSIVE SpellFrom(_, _, _)
SpellFrom(s, i, acc) ==
  IF i > Len(s) THEN acc
  ELSE IF ~IsWordChar(s[i]) THEN SpellFrom(s, i + 1, acc)
  ELSE LET stops == {j \in i..Len(s) : ~IsWordChar(s[j])}
           stop  == IF stops = {} THEN Len(s) + 1
                    ELSE CHOOSE j \in stops : \A k \in stops : j <= k
           word      == SubSeq(s, i, stop - 1)
           wordStart == i - 1
           wordEnd   == wordStart + Len(word)
           cleanWord == cleanWordOf(word)
           \* word.replace(new RegExp(cleanWord, 'gi'), correction): the word
           \* is, up to case, cleanWord, so the whole word is replaced
           hit == [id |-> <<"spell", wordStart>>,
                   start_index |-> wordStart,
                   end_index |-> wordEnd,
                   issue_type |-> "spelling",
                   original_text |-> word,
                   suggested_text |-> commonMisspellings[cleanWord]]
       IN  SpellFrom(s, stop,
                     IF cleanWord \in DOMAIN commonMisspellings
                     THEN Append(acc, hit) ELSE acc)

basicSpellCheck(content) == SpellFrom(normalizeContent(content), 1, <<>>)

(***************************************************************************)
(* The analyze-grammar edge function.                                      *)
(***************************************************************************)
\* text.length > 50000 is refused
MaxTextLength == 50000

\* A LanguageTool match of the model: offset, length, the replacement values,
\* rule.category.id and rule.id.  The keywords of the issue type mapping:

TYPO == <<"t","y","p","o">>
SPELL == <<"s","p","e","l","l">>
STYLE == <<"s","t","y","l","e">>
REDUNDANCY == <<"r","e","d","u","n","d","a","n","c","y">>
CLARITY == <<"c","l","a","r","i","t","y">>
CONFUSED == <<"c","o","n","f","u","s","e","d">>

\* mutant of issueTypeOf: every keyword is looked for in both identifiers
issueTypeOfAnyIdentifier(match) ==
  LET categoryId == toLowerCase(match.categoryId)
      ruleId     == toLowerCase(match.ruleId)
      has(kw)    == includes(categoryId, kw) \/ includes(ruleId, kw)
  IN  IF has(TYPO) \/ has(SPELL) THEN "spelling"
      ELSE IF has(STYLE) \/ has(REDUNDANCY) THEN "style"
      ELSE IF has(CLARITY) \/ has(CONFUSED) THEN "clarity"
      ELSE "grammar"

\* the issue type of a match, from its category and rule identifiers
issueTypeOf(match) ==
  LET categoryId == toLowerCase(match.categoryId)
      ruleId     == toLowerCase(match.ruleId)
  IN  IF includes(categoryId, TYPO) \/ includes(ruleId, SPELL) THEN "spelling"
      ELSE IF includes(categoryId, STYLE) \/ includes(categoryId, REDUNDANCY)
           THEN "style"
      ELSE IF includes(categoryId, CLARITY) \/ includes(categoryId, CONFUSED)
           THEN "clarity"
      ELSE "grammar"

\* data.matches.map((match, index) => ...)
convertMatches(matches, text) ==
  [i \in 1..Len(matches) |->
     LET match == matches[i]
         span  == substring(text, match.offset, match.offset + match.length)
     IN  [id |-> <<"lt", i - 1, match.offset>>,
          start_index |-> match.offset,
          end_index |-> match.offset + match.length,
          issue_type |-> issueTypeOf(match),
          original_text |-> span,
          suggested_text |-> IF Len(match.replacements) > 0
                             THEN match.replacements[1]
                             ELSE span]]

\* mutant of uniqueSuggestions: nothing is removed
uniqueSuggestionsKeepsAll(allSuggestions) == allSuggestions

\* self.findIndex(s => s.start_index === ... && s.end_index === ...), 1-based
findIndexOfSpan(self, suggestion) ==
  CHOOSE i \in 1..Len(self) :
    /\ self[i].start_index = suggestion.start_index
    /\ self[i].end_index = suggestion.end_index
    /\ \A j \in 1..(i - 1) :
         ~(/\ self[j].start_index = suggestion.start_index
           /\ self[j].end_index = suggestion.end_index)

RECURSIVE FilterFirstOfSpan(_, _)
FilterFirstOfSpan(self, index) ==
  IF index > Len(self) THEN <<>>
  ELSE (IF index = findIndexOfSpan(self, self[index])
        THEN <<self[index]>> ELSE <<>>)
       \o FilterFirstOfSpan(self, index + 1)

\* allSuggestions.filter((suggestion, index, self) => index === self.findIndex(...))
uniqueSuggestions(allSuggestions) == FilterFirstOfSpan(allSuggestions, 1)

\* mutant of allSuggestionsOf: the dictionary hits come first
allSuggestionsLocalFirst(suggestions, basicSuggestions) ==
  basicSuggestions \o suggestions

\* [...suggestions, ...basicSuggestions]
allSuggestionsOf(suggestions, basicSuggestions) == suggestions \o basicSuggestions

\* The outcomes of the LanguageTool call, as the handler sees them: an answer
\* with matches ("ok"), a non-success status ("status"), fetch throwing a
\* network error ("throw"), an answer whose JSON cannot be read or has no
\* matches array ("malformed").
FailureKinds == {"status", "throw", "malformed"}

\* the handler's answer before it calls LanguageTool, or "pass"
validateRequest(text, documentId) ==
  IF text = <<>> \/ documentId = ""
  THEN [status |-> 400, body |-> [error |-> "Text and documentId are required"]]
  ELSE IF Len(text) > MaxTextLength
  THEN [status |-> 400, body |-> [error |-> "Text too long (max 50,000 characters)"]]
  ELSE [status |-> 0, body |-> [error |-> "pass"]]

\* the handler's answer once the LanguageTool call has ended with outcome lt
respondToLanguageTool(text, lt) ==
  IF lt.kind = "status"
  THEN [status |-> 200, body |-> [suggestions |-> generateBasicSuggestions(text)]]
  ELSE IF lt.kind = "ok"
  THEN [status |-> 200,
        body |-> [suggestions |->
                    uniqueSuggestions(allSuggestionsOf(convertMatches(lt.matches, text),
                                                       generateBasicSuggestions(text)))]]
  ELSE [status |-> 500, body |-> [error |-> "Grammar analysis failed"]]

(***************************************************************************)
(* The editor, the document store and SuggestionEngine.                    *)
(***************************************************************************)
Docs == {"d1", "d2"}
NoDoc == "none"

\* "teh cat", "a teh adn", "teh"
TextTehCat == <<"t","e","h"," ","c","a","t">>
TextATehAdn == <<"a"," ","t","e","h"," ","a","d","n">>
TextTeh == <<"t","e","h">>
Texts == {TextTehCat, TextATehAdn, TextTeh}

Match(offset, length, replacement) ==
  [offset |-> offset, length |-> length, replacements |-> <<replacement>>,
   categoryId |-> <<"T","Y","P","O","S">>,
   ruleId |-> <<"M","O","R","F","O","L","O","G","I","K">>]

\* the answers LanguageTool gives in the editor specification: one list, whose
\* matches are not in the order of their offsets
MatchLists ==
  { <<Match(4, 3, <<"c","a","r">>), Match(0, 3, <<"t","h","e">>)>> }

LanguageToolOutcomes ==
  {[kind |-> "ok", matches |-> m] : m \in MatchLists}
    \cup {[kind |-> k, matches |-> <<>>] : k \in FailureKinds}

VARIABLES
  currentDocument,  \* the store's currentDocument: a document id, or NoDoc
  content,          \* content[d]: the content of document d in the store
  suggestions,      \* the editor's suggestions state
  debounceTimeout,  \* SuggestionEngine.debounceTimeout: a timer handle, 0 for null
  timers,           \* the armed timers: records [id, content, documentId]
  running,          \* the timer callbacks suspended at their await
  nextId,           \* the next timer handle
  edits,            \* number of handleContentChange events so far
  gen,              \* history: gen[d] counts the edits of document d
  calls,            \* history: calls[id] is the analyzeTextDebounced call that armed timer id
  superseded,       \* history: handles whose timer was armed when a later call came
  dispatchLog,      \* history: the analyses dispatched, in order
  callbackLog,      \* history: the invocations of the caller's callback, in order
  rc,               \* the reconciler specification's request and answer
  memo              \* the values of basicSpellCheck and of the edge function's
                    \* answer on the texts of the editor, computed in Init and
                    \* never changed

vars == <<currentDocument, content, suggestions, debounceTimeout, timers, running,
          nextId, edits, gen, calls, superseded, dispatchLog, callbackLog, rc, memo>>

editorVars == <<currentDocument, content, suggestions, debounceTimeout, timers,
                running, nextId, edits, gen, calls, superseded, dispatchLog,
                callbackLog, memo>>

\* the function f as an explicit table of its values
TableOf(f) == f @@ <<>>

MemoTables ==
  [basicSpellCheck |-> TableOf([t \in Texts |-> basicSpellCheck(t)]),
   respondToLanguageTool |->
     TableOf([t \in {normalizeContent(x) : x \in Texts} |->
                TableOf([lt \in LanguageToolOutcomes |->
                           respondToLanguageTool(t, lt)])])]

RcIdle == [phase |-> "idle"]

Init ==
  /\ currentDocument = NoDoc
  /\ content = [d \in Docs |-> <<>>]
  /\ suggestions = <<>>
  /\ debounceTimeout = 0
  /\ timers = {}
  /\ running = {}
  /\ nextId = 1
  /\ edits = 0
  /\ gen = [d \in Docs |-> 0]
  /\ calls = <<>>
  /\ superseded = {}
  /\ dispatchLog = <<>>
  /\ callbackLog = <<>>
  /\ rc = RcIdle
  /\ memo = MemoTables

\* useDocumentStore.setCurrentDocument
setCurrentDocument(d) ==
  /\ d # currentDocument
  /\ currentDocument' = d
  /\ UNCHANGED <<content, suggestions, debounceTimeout, timers, running, nextId,
                 edits, gen, calls, superseded, dispatchLog, callbackLog, rc, memo>>

\* clearTimeout(this.debounceTimeout): the armed timers that are left
clearTimeout(handle) == {t \in timers : t.id # handle}

\* mutant of timersAfterCall: the call arms its timer without clearing the
\* one before
timersAfterCallKeepsOld(newContent, documentId) ==
  timers \cup {[id |-> nextId, content |-> newContent, documentId |-> documentId]}

\* SuggestionEngine.analyzeTextDebounced up to its setTimeout: the armed timers
\* after the call
timersAfterCall(newContent, documentId) ==
  (IF debounceTimeout # 0 THEN clearTimeout(debounceTimeout) ELSE timers)
    \cup {[id |-> nextId, content |-> newContent, documentId |-> documentId]}

\* the callback the editor passes: setSuggestions(newSuggestions).  The log
\* entry keeps what the callback was given and what the store held then.
invokeCallback(req, newSuggestions, failure) ==
  /\ suggestions' = newSuggestions
  /\ callbackLog' = Append(callbackLog,
       [id |-> req.id, documentId |-> req.documentId, content |-> req.content,
        gen |-> calls[req.id].gen, suggestions |-> newSuggestions,
        genAtDispatch |-> req.genAtDispatch,
        failure |-> failure, attempts |-> req.attempts,
        remoteCalls |-> req.remoteCalls,
        keys |-> IF failure \in {"none", "status"} THEN DOMAIN req.response.body
                 ELSE {},
        currentContent |-> content[req.documentId],
        currentGen |-> gen[req.documentId]])

\* Editor.handleContentChange
handleContentChange(newContent) ==
  /\ currentDocument # NoDoc
  /\ edits < MaxEdits
  /\ newContent # content[currentDocument]
  /\ edits' = edits + 1
  /\ content' = [content EXCEPT ![currentDocument] = newContent]
  /\ gen' = [gen EXCEPT ![currentDocument] = @ + 1]
  /\ IF Len(newContent) > 5
     THEN /\ timers' = timersAfterCall(newContent, currentDocument)
          /\ debounceTimeout' = nextId
          /\ nextId' = nextId + 1
          /\ calls' = Append(calls, [documentId |-> currentDocument,
                                     content |-> newContent,
                                     gen |-> gen'[currentDocument]])
          /\ superseded' = superseded \cup {t.id : t \in timers}
          /\ UNCHANGED suggestions
     ELSE /\ suggestions' = <<>>
          /\ UNCHANGED <<timers, debounceTimeout, nextId, calls, superseded>>
  /\ UNCHANGED <<currentDocument, running, dispatchLog, callbackLog, rc, memo>>

\* the state of a timer callback that has just called the edge function
NoResponse == [status |-> 0, body |-> [error |-> "pass"]]

newRequest(t) ==
  [id |-> t.id, documentId |-> t.documentId, content |-> t.content,
   text |-> normalizeContent(t.content),
   genAtDispatch |-> gen[t.documentId],
   stage |-> "invoke", attempts |-> 1, remoteCalls |-> 0, lt |-> "none",
   response |-> NoResponse]

\* A timer elapses and its callback starts: analyzeTextWithEdgeFunction returns
\* [] at once for blank content and content shorter than 5 characters (the
\* callback then runs before any other event), and calls
\* supabase.functions.invoke otherwise.
timerFires(t) ==
  /\ t \in timers
  /\ timers' = timers \ {t}
  /\ dispatchLog' = Append(dispatchLog,
       [id |-> t.id, documentId |-> t.documentId, content |-> t.content])
  /\ IF trim(t.content) = <<>> \/ Len(t.content) < 5
     THEN /\ invokeCallback([newRequest(t) EXCEPT !.attempts = 0], <<>>, "skipped")
          /\ UNCHANGED running
     ELSE /\ running' = running \cup {newRequest(t)}
          /\ UNCHANGED <<suggestions, callbackLog>>
  /\ UNCHANGED <<currentDocument, content, debounceTimeout, nextId, edits, gen,
                 calls, superseded, rc, memo>>

\* mutant of fallbackSuggestions: the catch block forgets the dictionary check
fallbackSuggestionsEmpty(req) == <<>>

\* the catch block of the timer callback: the client's dictionary check
fallbackSuggestions(req) == memo.basicSpellCheck[req.content]

\* mutant of invokeFails: the error ends the timer callback and the caller's
\* callback is not invoked
invokeFailsSilently(r) ==
  /\ r \in running
  /\ r.stage = "invoke"
  /\ running' = running \ {r}
  /\ UNCHANGED <<currentDocument, content, suggestions, debounceTimeout, timers,
                 nextId, edits, gen, calls, superseded, dispatchLog, callbackLog, rc, memo>>

\* the policy of retryOperation: maxRetries further attempts
MaxRetries == 3

\* mutant of invokeFails: the failed call is made again, as retryOperation
\* would, and the fallback runs after the last attempt
invokeFailsRetries(r) ==
  /\ r \in running
  /\ r.stage = "invoke"
  /\ IF r.attempts <= MaxRetries
     THEN /\ running' = (running \ {r}) \cup {[r EXCEPT !.attempts = @ + 1]}
          /\ UNCHANGED <<suggestions, callbackLog>>
     ELSE /\ running' = running \ {r}
          /\ invokeCallback(r, fallbackSuggestions(r), "invoke")
  /\ UNCHANGED <<currentDocument, content, debounceTimeout, timers, nextId, edits,
                 gen, calls, superseded, dispatchLog, rc, memo>>

\* supabase.functions.invoke could not reach the edge function and returns an
\* error; analyzeTextWithEdgeFunction throws it
invokeFails(r) ==
  /\ r \in running
  /\ r.stage = "invoke"
  /\ running' = running \ {r}
  /\ invokeCallback(r, fallbackSuggestions(r), "invoke")
  /\ UNCHANGED <<currentDocument, content, debounceTimeout, timers, nextId, edits,
                 gen, calls, superseded, dispatchLog, rc, memo>>

\* the edge function takes the request: it answers 400 to a request it refuses
\* and calls LanguageTool otherwise
edgeFunctionServes(r) ==
  /\ r \in running
  /\ r.stage = "invoke"
  /\ LET v == validateRequest(r.text, r.documentId)
     IN  running' = (running \ {r}) \cup
           {IF v.status # 0
            THEN [r EXCEPT !.stage = "reply", !.lt = "validation", !.response = v]
            ELSE [r EXCEPT !.stage = "fetch", !.remoteCalls = @ + 1]}
  /\ UNCHANGED <<currentDocument, content, suggestions, debounceTimeout, timers,
                 nextId, edits, gen, calls, superseded, dispatchLog, callbackLog, rc, memo>>

\* the LanguageTool call ends and the edge function answers
languageToolAnswers(r, lt) ==
  /\ r \in running
  /\ r.stage = "fetch"
  /\ running' = (running \ {r}) \cup
       {[r EXCEPT !.stage = "reply", !.lt = lt.kind,
                  !.response = memo.respondToLanguageTool[r.text][lt]]}
  /\ UNCHANGED <<currentDocument, content, suggestions, debounceTimeout, timers,
                 nextId, edits, gen, calls, superseded, dispatchLog, callbackLog, rc, memo>>

\* data.suggestions || []
suggestionsOfData(data) ==
  IF "suggestions" \in DOMAIN data THEN data.suggestions ELSE <<>>

\* mutant of invokeReturns: after a non-2xx answer the edge function is
\* called again
invokeReturnsRetries(r) ==
  /\ r \in running
  /\ r.stage = "reply"
  /\ IF r.response.status = 200
     THEN /\ running' = running \ {r}
          /\ invokeCallback(r, suggestionsOfData(r.response.body),
                            IF r.lt = "status" THEN "status" ELSE "none")
     ELSE IF r.attempts <= MaxRetries
     THEN /\ running' = (running \ {r}) \cup
                          {[r EXCEPT !.stage = "invoke", !.attempts = @ + 1,
                                     !.lt = "none", !.response = NoResponse]}
          /\ UNCHANGED <<suggestions, callbackLog>>
     ELSE /\ running' = running \ {r}
          /\ invokeCallback(r, fallbackSuggestions(r), r.lt)
  /\ UNCHANGED <<currentDocument, content, debounceTimeout, timers, nextId, edits,
                 gen, calls, superseded, dispatchLog, rc, memo>>

\* supabase.functions.invoke returns the edge function's answer: a non-2xx
\* answer is an error, which analyzeTextWithEdgeFunction throws
invokeReturns(r) ==
  /\ r \in running
  /\ r.stage = "reply"
  /\ running' = running \ {r}
  /\ IF r.response.status = 200
     THEN invokeCallback(r, suggestionsOfData(r.response.body),
                         IF r.lt = "status" THEN "status" ELSE "none")
     ELSE invokeCallback(r, fallbackSuggestions(r), r.lt)
  /\ UNCHANGED <<currentDocument, content, debounceTimeout, timers, nextId, edits,
                 gen, calls, superseded, dispatchLog, rc, memo>>

\* the steps of the analysis that timer id started
analysisStep(id) ==
  \E r \in running :
    /\ r.id = id
    /\ \/ invokeFails(r)
       \/ edgeFunctionServes(r)
       \/ \E lt \in LanguageToolOutcomes : languageToolAnswers(r, lt)
       \/ invokeReturns(r)

Next ==
  \/ \E d \in Docs : setCurrentDocument(d)
  \/ \E newContent \in Texts : handleContentChange(newContent)
  \/ \E t \in timers : timerFires(t)
  \/ \E r \in running : invokeFails(r)
  \/ \E r \in running : edgeFunctionServes(r)
  \/ \E r \in running : \E lt \in LanguageToolOutcomes : languageToolAnswers(r, lt)
  \/ \E r \in running : invokeReturns(r)

Spec == Init /\ [][Next]_vars

\* The event loop runs every timer that is not cleared, and every call to the
\* edge function and to LanguageTool ends (with an answer or an error).
FairSpec ==
  /\ Spec
  /\ WF_vars(\E t \in timers : timerFires(t))
  /\ \A id \in 1..MaxEdits : WF_vars(analysisStep(id))

(***************************************************************************)
(* The edge function alone: one request, every short LanguageTool answer.  *)
(***************************************************************************)
\* the whole handler, for a POST request with a JSON body
serveHandler(text, documentId, lt) ==
  LET v == validateRequest(text, documentId)
  IN  IF v.status # 0 THEN v ELSE respondToLanguageTool(text, lt)

\* "teh adn"
TextTehAdn == <<"t","e","h"," ","a","d","n">>
RcTexts == {TextTehCat, TextATehAdn, TextTehAdn, <<>>}

RcMatchSet ==
  {[offset |-> o, length |-> l, replacements |-> rep,
    categoryId |-> <<"T","Y","P","O","S">>,
    ruleId |-> <<"M","O","R","F","O","L","O","G","I","K">>] :
     o \in {0, 2, 4}, l \in {3, 5}, rep \in {<<>>, <<<<"t","h","e">>>>}}

RECURSIVE SeqsUpTo(_, _)
SeqsUpTo(S, n) ==
  IF n = 0 THEN {<<>>}
  ELSE LET shorter == SeqsUpTo(S, n - 1)
       IN  shorter \cup {Append(q, x) : q \in shorter, x \in S}

RcOutcomes ==
  {[kind |-> "ok", matches |-> m] : m \in SeqsUpTo(RcMatchSet, MaxMatches)}
    \cup {[kind |-> k, matches |-> <<>>] : k \in FailureKinds}

InitReconcile ==
  /\ currentDocument = NoDoc
  /\ content = [d \in Docs |-> <<>>]
  /\ suggestions = <<>>
  /\ debounceTimeout = 0
  /\ timers = {}
  /\ running = {}
  /\ nextId = 1
  /\ edits = 0
  /\ gen = [d \in Docs |-> 0]
  /\ calls = <<>>
  /\ superseded = {}
  /\ dispatchLog = <<>>
  /\ callbackLog = <<>>
  /\ memo = MemoTables
  /\ rc \in {[phase |-> "request", text |-> t, lt |-> lt, response |-> NoResponse] :
               t \in RcTexts, lt \in RcOutcomes}

serveRequest ==
  /\ rc.phase = "request"
  /\ rc' = [rc EXCEPT !.phase = "answered",
                      !.response = serveHandler(rc.text, "d1", rc.lt)]
  /\ UNCHANGED editorVars

NextReconcile == serveRequest

SpecReconcile == InitReconcile /\ [][NextReconcile]_vars

(***************************************************************************)
(* Properties of the debounced analysis (specifications Spec and FairSpec).*)
(***************************************************************************)
Delivered == 1..Len(callbackLog)
Dispatches == 1..Len(dispatchLog)

\* C1: for one document, once the analysis of a newer edit has been delivered,
\* the result of an analysis of an older edit that was still in flight is
\* never passed to the callback: the deliveries for a document are in the
\* order of its edits.
C1_StaleResultNeverDelivered ==
  \A i, j \in Delivered :
    (i < j /\ callbackLog[i].documentId = callbackLog[j].documentId)
      => callbackLog[i].gen <= callbackLog[j].gen

\* C2: the result of an analysis that was dispatched for the then latest edit
\* of its document is discarded when a newer edit of the document arrives
\* before it completes: every delivery of such an analysis is for the text of
\* the document's most recent edit at that moment.
C2_OnlyLatestEditDelivered ==
  \A i \in Delivered :
    callbackLog[i].genAtDispatch = callbackLog[i].gen
      => /\ callbackLog[i].currentGen = callbackLog[i].gen
         /\ callbackLog[i].currentContent = callbackLog[i].content

C4_EditKeepsOtherDocumentsTimer ==
  [][\A t \in timers :
       (\E d \in Docs \ {t.documentId} : gen'[d] # gen[d]) => t \in timers']_vars

\* the deliveries of an analysis whose Remote source failed: LanguageTool
\* answered with a non-success status, its call threw, its answer was
\* malformed, or the edge function could not be reached
RemoteFailures == FailureKinds \cup {"invoke"}

LocalOnly(list) ==
  \A k \in 1..Len(list) : list[k].id[1] \in {"basic-spell", "spell"}

DeliveriesOf(id) == Cardinality({i \in Delivered : callbackLog[i].id = id})

\* C6: every analysis that is dispatched is delivered to the callback, once
\* and with a suggestion list, whether the Remote source succeeds or fails.
C6_DispatchedIsDeliveredOnce ==
  /\ [](\A id \in 1..MaxEdits : DeliveriesOf(id) <= 1)
  /\ \A id \in 1..MaxEdits :
       (\E i \in Dispatches : dispatchLog[i].id = id) ~> (DeliveriesOf(id) = 1)

\* one analysis delivered with the Remote result and one after a malformed
\* answer
C6_Witness ==
  \E i, j \in Delivered :
    /\ callbackLog[i].failure = "none"
    /\ callbackLog[j].failure = "malformed"
    /\ DeliveriesOf(callbackLog[i].id) = 1
    /\ DeliveriesOf(callbackLog[j].id) = 1

\* network-class failures: the edge function or LanguageTool was not reached
NetworkFailures == {"invoke", "throw"}

C8_NoRemoteCallAfterFailure ==
  [][/\ \A r \in running :
          r.lt \in FailureKinds \cup {"validation"}
            => \A q \in running' : q.id = r.id => q = r
     /\ \A i \in Delivered : \A q \in running' : q.id # callbackLog[i].id]_vars

\* a delivery after a malformed answer: one attempt, one LanguageTool call
C8_Witness ==
  \E i \in Delivered :
    /\ callbackLog[i].failure = "malformed"
    /\ callbackLog[i].attempts = 1
    /\ callbackLog[i].remoteCalls = 1
    /\ LocalOnly(callbackLog[i].suggestions)

(***************************************************************************)
(* Properties of the edge function's answer (specification SpecReconcile). *)
(***************************************************************************)
RcReconciled ==
  rc.phase = "answered" /\ rc.lt.kind = "ok" /\ rc.response.status = 200

RcReturned == rc.phase = "answered" /\ rc.response.status = 200

\* what the two sources gave for the request, and the list that was returned
RcRemote == convertMatches(rc.lt.matches, rc.text)
RcLocal == generateBasicSuggestions(rc.text)
RcIn == RcRemote \o RcLocal
RcOut == rc.response.body.suggestions

SameSpan(a, b) == a.start_index = b.start_index /\ a.end_index = b.end_index

FromRemote(x) == x.id[1] = "lt"
FromLocal(x) == x.id[1] = "basic-spell"

\* C9: the returned list holds, for each span of the Remote results followed
\* by the Local results, exactly one suggestion, the first one of that span in
\* that order (the Remote one when both sources report the span), and nothing
\* else.
C9_FirstOfEachSpanSurvives ==
  RcReconciled =>
    /\ \A k \in 1..Len(RcIn) :
         LET same  == {j \in 1..Len(RcIn) : SameSpan(RcIn[j], RcIn[k])}
             first == CHOOSE j \in same : \A j2 \in same : j <= j2
             kept  == {m \in 1..Len(RcOut) : SameSpan(RcOut[m], RcIn[k])}
         IN  /\ Cardinality(kept) = 1
             /\ \A m \in kept : RcOut[m] = RcIn[first]
    /\ \A m \in 1..Len(RcOut) : \E k \in 1..Len(RcIn) : RcOut[m] = RcIn[k]
    /\ \A i \in 1..Len(RcRemote) : \A j \in 1..Len(RcLocal) :
         SameSpan(RcRemote[i], RcLocal[j])
           => \A m \in 1..Len(RcOut) :
                SameSpan(RcOut[m], RcLocal[j]) => FromRemote(RcOut[m])

\* both sources reported one span and the returned list holds the Remote
\* suggestion for it
C9_Witness ==
  /\ RcReconciled
  /\ \E i \in 1..Len(RcRemote) : \E j \in 1..Len(RcLocal) : \E m \in 1..Len(RcOut) :
       /\ SameSpan(RcRemote[i], RcLocal[j])
       /\ RcOut[m] = RcRemote[i]
       /\ RcLocal[j].suggested_text # RcRemote[i].suggested_text

C11_ReturnedSpansLieInText ==
  RcReturned =>
    \A m \in 1..Len(RcOut) :
      /\ 0 <= RcOut[m].start_index
      /\ RcOut[m].start_index <= RcOut[m].end_index
      /\ RcOut[m].end_index <= Len(rc.text)

(***************************************************************************)
(* One edit, its analysis, and the acceptance of one of its suggestions    *)
(* (specification SpecAccept).  The content of the editor is any short     *)
(* concatenation of a few pieces, or the sentence "Teh qick brown fox.".   *)
(***************************************************************************)
\* number of pieces in a content
MaxPieces == 3

Pieces ==
  { <<"t","e","h">>, <<"T","e","h">>, <<"t","'","e","h">>, <<".">>, <<" ">>,
    <<"\r","\n">>, <<"\r">>, <<"e", CombiningAcute>> }

RECURSIVE Flatten(_)
Flatten(q) == IF q = <<>> THEN <<>> ELSE Head(q) \o Flatten(Tail(q))

TextTehQickBrownFox ==
  <<"T","e","h"," ","q","i","c","k"," ","b","r","o","w","n"," ","f","o","x",".">>

AcContents ==
  {Flatten(q) : q \in SeqsUpTo(Pieces, MaxPieces)} \cup {TextTehQickBrownFox}

\* the ways the call of the edge function can end: the outcomes of its
\* LanguageTool call, or the edge function itself out of reach ("invoke")
AcOutcomes ==
  {[kind |-> "ok", matches |-> m] :
     m \in { <<>>, <<Match(0, 3, <<"t","h","e">>)>>, <<Match(4, 3, <<"c","a","r">>)>>,
              <<Match(0, 3, <<"t","e","c","h">>)>> }}
    \cup {[kind |-> k, matches |-> <<>>] : k \in FailureKinds \cup {"invoke"}}

\* what the timer callback of analyzeTextDebounced passes to the caller's
\* callback for a content, when the call of the edge function ends with lt
analyzedSuggestions(c, documentId, lt) ==
  IF trim(c) = <<>> \/ Len(c) < 5 THEN <<>>
  ELSE IF lt.kind = "invoke" THEN basicSpellCheck(c)
  ELSE LET response == serveHandler(normalizeContent(c), documentId, lt)
       IN  IF response.status = 200
           THEN suggestionsOfData(response.body)
           ELSE basicSpellCheck(c)

InitAccept ==
  /\ currentDocument = "d1"
  /\ content = [d \in Docs |-> <<>>]
  /\ suggestions = <<>>
  /\ debounceTimeout = 0
  /\ timers = {}
  /\ running = {}
  /\ nextId = 1
  /\ edits = 0
  /\ gen = [d \in Docs |-> 0]
  /\ calls = <<>>
  /\ superseded = {}
  /\ dispatchLog = <<>>
  /\ callbackLog = <<>>
  /\ memo = MemoTables
  /\ rc \in {[phase |-> "edited", content |-> c, lt |-> lt] :
               c \in AcContents, lt \in AcOutcomes}

\* mutant of analyzeContent: the editor starts the analysis for every content
analyzeContentAnyLength ==
  /\ rc.phase = "edited"
  /\ rc' = [phase |-> "delivered", content |-> rc.content, lt |-> rc.lt,
            suggestions |-> analyzedSuggestions(rc.content, "d1", rc.lt)]
  /\ UNCHANGED editorVars

\* handleContentChange for the content, its timer, and the timer callback up
\* to setSuggestions
analyzeContent ==
  /\ rc.phase = "edited"
  /\ rc' = [phase |-> "delivered", content |-> rc.content, lt |-> rc.lt,
            suggestions |-> IF Len(rc.content) > 5
                            THEN analyzedSuggestions(rc.content, "d1", rc.lt)
                            ELSE <<>>]
  /\ UNCHANGED editorVars

\* suggestions.filter(s => s.id !== id)
RECURSIVE withoutId(_, _)
withoutId(list, id) ==
  IF list = <<>> THEN <<>>
  ELSE (IF Head(list).id # id THEN <<Head(list)>> ELSE <<>>)
       \o withoutId(Tail(list), id)

\* Editor.handleAcceptSuggestion
handleAcceptSuggestion(suggestion) ==
  /\ rc.phase = "delivered"
  /\ rc' = [phase |-> "accepted",
            content |-> substring(rc.content, 0, suggestion.start_index)
                          \o suggestion.suggested_text
                          \o substring(rc.content, suggestion.end_index, Len(rc.content)),
            lt |-> rc.lt,
            suggestions |-> withoutId(rc.suggestions, suggestion.id),
            accepted |-> suggestion,
            before |-> rc.content]
  /\ UNCHANGED editorVars

NextAccept ==
  \/ analyzeContent
  \/ /\ rc.phase = "delivered"
     /\ \E k \in 1..Len(rc.suggestions) : handleAcceptSuggestion(rc.suggestions[k])

SpecAccept == InitAccept /\ [][NextAccept]_vars

\* C12 as stated: for every suggestion delivered to the editor, the editor's
\* own content between start and end is the suggestion's original_text, also
\* for contents with CR LF, CR or characters that are not in NFC.  The offsets
\* are computed on the normalised text, which is shorter.
C12_OffsetsMatchEditorContent ==
  rc.phase = "delivered" =>
    \A k \in 1..Len(rc.suggestions) :
      substring(rc.content, rc.suggestions[k].start_index,
                rc.suggestions[k].end_index) = rc.suggestions[k].original_text

\* the Local source a suggestion came from, by its id
IsLocalHit(s) == s.id[1] \in {"basic-spell", "spell"}

\* the Local source of suggestion s run again, over the content c: the edge
\* function's check gets the normalised text, the client's check normalises
\* by itself
localSourceAgain(s, c) ==
  IF s.id[1] = "basic-spell"
  THEN generateBasicSuggestions(normalizeContent(c))
  ELSE basicSpellCheck(c)

\* C13 as stated: after a suggestion of the Local source has been accepted
\* (its span replaced by its suggested_text), the Local source run over the
\* updated text emits no suggestion with the same start, end, original_text and
\* suggested_text; capitalised tokens and tokens with punctuation inside
\* included.
C13_AcceptedLocalHitNotRegenerated ==
  (rc.phase = "accepted" /\ IsLocalHit(rc.accepted)) =>
    LET again == localSourceAgain(rc.accepted, rc.content)
    IN  \A k \in 1..Len(again) :
          ~(/\ again[k].start_index = rc.accepted.start_index
            /\ again[k].end_index = rc.accepted.end_index
            /\ again[k].original_text = rc.accepted.original_text
            /\ again[k].suggested_text = rc.accepted.suggested_text)

\* the failures of the Remote source, the edge function out of reach included
RemoteUnreachable == FailureKinds \cup {"invoke"}

\* whether the delivered result carries a degraded flag that is set
DegradedFlagSet == "degraded" \in DOMAIN rc /\ rc.degraded = TRUE

\* C14 as stated: with the Remote source unreachable, every whitespace-
\* delimited token of an analysed content whose lowercased, punctuation-
\* stripped form is a key of the table yields a spelling suggestion, inside
\* the token, whose suggested_text holds the table's correction, whatever the
\* case of the token; and "Teh qick brown fox." yields the degraded flag and
\* the suggestion with start 0, end 3, spelling, "the".
C14_EveryMisspeltTokenIsCorrected ==
  (rc.phase = "delivered" /\ rc.lt.kind \in RemoteUnreachable /\ Len(rc.content) > 5) =>
    /\ \A w \in Range(splitWhitespace(rc.content)) :
         cleanWordOf(w) \in DOMAIN commonMisspellings =>
           \E k \in 1..Len(rc.suggestions) :
             /\ rc.suggestions[k].issue_type = "spelling"
             /\ includes(w, rc.suggestions[k].original_text)
             /\ includes(rc.suggestions[k].suggested_text,
                         commonMisspellings[cleanWordOf(w)])
    /\ rc.content = TextTehQickBrownFox =>
         /\ DegradedFlagSet
         /\ \E k \in 1..Len(rc.suggestions) :
              /\ rc.suggestions[k].start_index = 0
              /\ rc.suggestions[k].end_index = 3
              /\ rc.suggestions[k].issue_type = "spelling"
              /\ rc.suggestions[k].suggested_text = <<"t","h","e">>

(***************************************************************************)
(* The issue type of one LanguageTool match (specification SpecIssueType). *)
(* The identifiers are one or two words joined by "_", among them the      *)
(* keywords in lower and in upper case.                                    *)
(***************************************************************************)
IdWords ==
  { TYPO, SPELL, STYLE, REDUNDANCY, CLARITY, CONFUSED,
    <<"T","Y","P","O","S">>, <<"H","U","N","S","P","E","L","L">>,
    <<"S","t","y","l","e">>, <<"C","O","N","F","U","S","E","D">>,
    <<"G","R","A","M","M","A","R">>, <<"r","u","l","e">> }

Identifiers == IdWords \cup {a \o <<"_">> \o b : a, b \in IdWords}

InitIssueType ==
  /\ currentDocument = NoDoc
  /\ content = [d \in Docs |-> <<>>]
  /\ suggestions = <<>>
  /\ debounceTimeout = 0
  /\ timers = {}
  /\ running = {}
  /\ nextId = 1
  /\ edits = 0
  /\ gen = [d \in Docs |-> 0]
  /\ calls = <<>>
  /\ superseded = {}
  /\ dispatchLog = <<>>
  /\ callbackLog = <<>>
  /\ memo = MemoTables
  /\ rc \in {[phase |-> "match",
              match |-> [offset |-> 0, length |-> 3, replacements |-> <<>>,
                         categoryId |-> c, ruleId |-> r]] :
               c \in Identifiers, r \in IdWords}

\* the mapping of the match to a suggestion, for the text "teh cat"
mapMatch ==
  /\ rc.phase = "match"
  /\ rc' = [phase |-> "mapped", match |-> rc.match,
            suggestion |-> convertMatches(<<rc.match>>, TextTehCat)[1]]
  /\ UNCHANGED editorVars

NextIssueType == mapMatch

SpecIssueType == InitIssueType /\ [][NextIssueType]_vars

\* the keyword kw occurs in the lowercased identifier
InCategory(kw) == includes(toLowerCase(rc.match.categoryId), kw)
InRule(kw) == includes(toLowerCase(rc.match.ruleId), kw)
InAnyIdentifier(kw) == InCategory(kw) \/ InRule(kw)

\* C15 as stated: spelling if an identifier (category or rule) contains "typo"
\* or "spell"; otherwise style if one contains "style" or "redundancy";
\* otherwise clarity if one contains "clarity" or "confused"; otherwise
\* grammar.
C15_IssueTypeFromAnyIdentifier ==
  rc.phase = "mapped" =>
    rc.suggestion.issue_type =
      IF InAnyIdentifier(TYPO) \/ InAnyIdentifier(SPELL) THEN "spelling"
      ELSE IF InAnyIdentifier(STYLE) \/ InAnyIdentifier(REDUNDANCY) THEN "style"
      ELSE IF InAnyIdentifier(CLARITY) \/ InAnyIdentifier(CONFUSED) THEN "clarity"
      ELSE "grammar"

\* C15, amended: each keyword is tested on one identifier only.  The type is
\* spelling exactly when the category id contains "typo" or the rule id
\* contains "spell"; it is style exactly when it is not spelling and the
\* category id contains "style" or "redundancy"; clarity exactly when it is
\* neither and the category id contains "clarity" or "confused"; grammar
\* exactly when none of these holds.  The tests ignore case.
C15_IssueTypeByPrecedence ==
  rc.phase = "mapped" =>
    LET spelling == InCategory(TYPO) \/ InRule(SPELL)
        style    == InCategory(STYLE) \/ InCategory(REDUNDANCY)
        clarity  == InCategory(CLARITY) \/ InCategory(CONFUSED)
        type     == rc.suggestion.issue_type
    IN  /\ type \in {"spelling", "style", "clarity", "grammar"}
        /\ (type = "spelling") <=> spelling
        /\ (type = "style") <=> (~spelling /\ style)
        /\ (type = "clarity") <=> (~spelling /\ ~style /\ clarity)
        /\ (type = "grammar") <=> (~spelling /\ ~style /\ ~clarity)

\* a match of the style and clarity keyword sets at once, whose rule id holds
\* "typo": it is mapped to style
C15_Witness ==
  /\ rc.phase = "mapped"
  /\ InCategory(STYLE)
  /\ InCategory(CONFUSED)
  /\ InRule(TYPO)
  /\ rc.suggestion.issue_type = "style"

(***************************************************************************)
(* The analyze-readability edge function (specification SpecReadability).  *)
(* A decimal number is kept as a fraction of two integers, so that the     *)
(* clamping and the rounding are computed exactly; a reported score is     *)
(* kept in tenths (score_value * 10).                                      *)
(***************************************************************************)
\* number of pieces in a text sent to the readability and tone analyses
MaxTextPieces == 4

\* "the cat sat. "
PieceCatSat == <<"t","h","e"," ","c","a","t"," ","s","a","t","."," ">>
\* "12 345 67 89! "
PieceNumbers == <<"1","2"," ","3","4","5"," ","6","7"," ","8","9","!"," ">>
\* "extraordinarily "
PieceLongWord == <<"e","x","t","r","a","o","r","d","i","n","a","r","i","l","y"," ">>
\* "a e i o u ay? "
PieceVowels == <<"a"," ","e"," ","i"," ","o"," ","u"," ","a","y","?"," ">>
\* "whole time line. "
PieceSilentE == <<"w","h","o","l","e"," ","t","i","m","e"," ","l","i","n","e","."," ">>
\* "              "
PieceBlank == <<" "," "," "," "," "," "," "," "," "," "," "," "," "," ">>

ReadabilityPieces ==
  {PieceCatSat, PieceNumbers, PieceLongWord, PieceVowels, PieceSilentE, PieceBlank}

ReadabilityTexts == {Flatten(q) : q \in SeqsUpTo(ReadabilityPieces, MaxTextPieces)}

\* s.split(separator) for a separator that matches the maximal runs of the
\* characters of seps
RECURSIVE SplitRuns(_, _, _, _, _)
SplitRuns(s, seps, i, cur, acc) ==
  IF i > Len(s) THEN Append(acc, cur)
  ELSE IF s[i] \in seps
       THEN LET rest == {j \in i..Len(s) : s[j] \notin seps}
                nxt  == IF rest = {} THEN Len(s) + 1
                        ELSE CHOOSE j \in rest : \A k \in rest : j <= k
            IN  SplitRuns(s, seps, nxt, <<>>, Append(acc, cur))
       ELSE SplitRuns(s, seps, i + 1, Append(cur, s[i]), acc)

SentenceEnders == {".", "!", "?"}
Whitespace == {" ", "\n", "\r", "\t"}

NotBlank(piece) == Len(trim(piece)) > 0
NotEmpty(piece) == Len(piece) > 0

\* text.split(/[.!?]+/).filter(s => s.trim().length > 0)
sentencesOf(text) == SelectSeq(SplitRuns(text, SentenceEnders, 1, <<>>, <<>>), NotBlank)

\* text.split(/\s+/).filter(w => w.length > 0)
wordsOf(text) == SelectSeq(SplitRuns(text, Whitespace, 1, <<>>, <<>>), NotEmpty)

Vowels == {"a", "e", "i", "o", "u", "y"}

\* the loop over the letters of cleanWord: the number of vowel groups
RECURSIVE vowelGroups(_, _, _, _)
vowelGroups(cleanWord, i, previousWasVowel, syllableCount) ==
  IF i > Len(cleanWord) THEN syllableCount
  ELSE LET isVowel == cleanWord[i] \in Vowels
       IN  vowelGroups(cleanWord, i + 1, isVowel,
                       IF isVowel /\ ~previousWasVowel
                       THEN syllableCount + 1 ELSE syllableCount)

\* word.replace(/[^a-z]/g, '')
IsLowerLetter(c) == c \in Range(Lower)
lettersOf(word) == SelectSeq(word, IsLowerLetter)


\* the reducer of countSyllables for one word of the lowercased text
syllablesOfWord(word) ==
  LET cleanWord == lettersOf(word)
  IN  IF Len(cleanWord) = 0 THEN 0
      ELSE LET groups == vowelGroups(cleanWord, 1, FALSE, 0)
               syllableCount == IF cleanWord[Len(cleanWord)] = "e" /\ groups > 1
                                THEN groups - 1 ELSE groups
           IN  Max(1, syllableCount)

RECURSIVE SumSyllables(_, _)
SumSyllables(words, total) ==
  IF words = <<>> THEN total
  ELSE SumSyllables(Tail(words), total + syllablesOfWord(Head(words)))

countSyllables(text) == SumSyllables(wordsOf(toLowerCase(text)), 0)

\* text.replace(/\s+/g, '').length
nonWhitespaceLength(text) == Len(RemoveChars(text, Whitespace))

\* Math.round of the fraction n / d (d > 0): the nearest integer, a half
\* rounded up
MathRound(n, d) == (2 * n + d) \div (2 * d)

\* mutant of clampEase: the score is not clamped
clampEaseNone(n, d) == n

\* Math.max(0, Math.min(100, n / d)), as a numerator over d
clampEase(n, d) == Max(0, Min(100 * d, n))

\* Math.max(0, n / d), as a numerator over d
clampAtZero(n) == Max(0, n)

\* calculateReadabilityScores: the three scores in tenths, with the counts
\* they were computed from; error when the text has no sentence or no word
calculateReadabilityScores(text) ==
  LET sentenceCount == Len(sentencesOf(text))
      wordCount     == Len(wordsOf(text))
      syllableCount == countSyllables(text)
      characters    == nonWhitespaceLength(text)
      \* the three formulas, each as a numerator over its denominator
      easeDen  == 1000 * sentenceCount * wordCount
      easeNum  == 206835 * sentenceCount * wordCount
                    - 1015 * wordCount * wordCount
                    - 84600 * syllableCount * sentenceCount
      gradeDen == 100 * sentenceCount * wordCount
      gradeNum == 39 * wordCount * wordCount
                    + 1180 * syllableCount * sentenceCount
                    - 1559 * sentenceCount * wordCount
      ariNum   == 471 * characters * sentenceCount
                    + 50 * wordCount * wordCount
                    - 2143 * sentenceCount * wordCount
  IN  IF sentenceCount = 0 \/ wordCount = 0
      THEN [error |-> "Invalid text structure for readability analysis"]
      ELSE [error |-> "none",
            sentenceCount |-> sentenceCount,
            wordCount |-> wordCount,
            syllableCount |-> syllableCount,
            flesch_reading_ease |-> MathRound(10 * clampEase(easeNum, easeDen), easeDen),
            flesch_kincaid_grade |-> MathRound(10 * clampAtZero(gradeNum), gradeDen),
            automated_readability |-> MathRound(10 * clampAtZero(ariNum), gradeDen)]

\* text.length < 50 is refused
MinReadabilityLength == 50

\* the handler of analyze-readability, for a POST request with a JSON body
serveReadabilityHandler(text, documentId) ==
  IF text = <<>> \/ documentId = ""
  THEN [status |-> 400, body |-> [error |-> "Text and documentId are required"]]
  ELSE IF Len(text) > MaxTextLength
  THEN [status |-> 400, body |-> [error |-> "Text too long (max 50,000 characters)"]]
  ELSE IF Len(text) < MinReadabilityLength
  THEN [status |-> 400,
        body |-> [error |-> "Text too short for readability analysis (min 50 characters)"]]
  ELSE LET analysis == calculateReadabilityScores(text)
       IN  IF analysis.error # "none"
           THEN [status |-> 500, body |-> [error |-> "Readability analysis failed"]]
           ELSE [status |-> 200, body |-> analysis]

InitReadability ==
  /\ currentDocument = NoDoc
  /\ content = [d \in Docs |-> <<>>]
  /\ suggestions = <<>>
  /\ debounceTimeout = 0
  /\ timers = {}
  /\ running = {}
  /\ nextId = 1
  /\ edits = 0
  /\ gen = [d \in Docs |-> 0]
  /\ calls = <<>>
  /\ superseded = {}
  /\ dispatchLog = <<>>
  /\ callbackLog = <<>>
  /\ memo = MemoTables
  /\ rc \in {[phase |-> "request", text |-> t, response |-> NoResponse] :
               t \in ReadabilityTexts}

serveReadability ==
  /\ rc.phase = "request"
  /\ rc' = [rc EXCEPT !.phase = "answered",
                      !.response = serveReadabilityHandler(rc.text, "d1")]
  /\ UNCHANGED editorVars

NextReadability == serveReadability

SpecReadability == InitReadability /\ [][NextReadability]_vars

ReadabilityAnswered == rc.phase = "answered" /\ rc.response.status = 200

\* C16: for every text the readability analysis accepts, the reported Flesch
\* Reading Ease lies in [0, 100], and the reported Flesch-Kincaid Grade and
\* Automated Readability Index are at least 0 (scores in tenths).
C16_ScoresWithinRange ==
  ReadabilityAnswered =>
    /\ 0 <= rc.response.body.flesch_reading_ease
    /\ rc.response.body.flesch_reading_ease <= 1000
    /\ 0 <= rc.response.body.flesch_kincaid_grade
    /\ 0 <= rc.response.body.automated_readability

\* an accepted text of one-syllable words whose raw ease is above 100 and
\* whose raw grade is below 0: both are reported at their limits
C16_Witness ==
  /\ ReadabilityAnswered
  /\ rc.response.body.wordCount = rc.response.body.syllableCount
  /\ rc.response.body.flesch_reading_ease = 1000
  /\ rc.response.body.flesch_kincaid_grade = 0

\* C17 as stated: syllableCount >= wordCount for an analysed text, tokens
\* without a letter included.  countSyllables skips a token that has no
\* letter a-z, while wordCount counts it.
C17_SyllablesAtLeastWords ==
  ReadabilityAnswered =>
    rc.response.body.syllableCount >= rc.response.body.wordCount

(***************************************************************************)
(* The analyze-tone edge function (specification SpecTone).                *)
(***************************************************************************)
formalIndicators ==
  << <<"t","h","e","r","e","f","o","r","e">>,
     <<"f","u","r","t","h","e","r","m","o","r","e">>,
     <<"c","o","n","s","e","q","u","e","n","t","l","y">>,
     <<"n","e","v","e","r","t","h","e","l","e","s","s">>,
     <<"m","o","r","e","o","v","e","r">>,
     <<"h","o","w","e","v","e","r">>,
     <<"t","h","u","s">>,
     <<"h","e","n","c","e">>,
     <<"i","n","d","e","e","d">>,
     <<"w","h","e","r","e","a","s">>,
     <<"n","o","t","w","i","t","h","s","t","a","n","d","i","n","g">>,
     <<"a","c","c","o","r","d","i","n","g","l","y">>,
     <<"s","u","b","s","e","q","u","e","n","t","l","y">>,
     <<"n","o","n","e","t","h","e","l","e","s","s">>,
     <<"h","e","n","c","e","f","o","r","t","h">> >>

casualIndicators ==
  << <<"y","e","a","h">>,
     <<"o","k","a","y">>,
     <<"c","o","o","l">>,
     <<"a","w","e","s","o","m","e">>,
     <<"t","o","t","a","l","l","y">>,
     <<"b","a","s","i","c","a","l","l","y">>,
     <<"a","c","t","u","a","l","l","y">>,
     <<"l","i","k","e">>,
     <<"y","o","u"," ","k","n","o","w">>,
     <<"k","i","n","d","a">>,
     <<"s","o","r","t","a">>,
     <<"g","o","n","n","a">>,
     <<"w","a","n","n","a">>,
     <<"g","o","t","t","a">> >>

confidentIndicators ==
  << <<"d","e","f","i","n","i","t","e","l","y">>,
     <<"c","e","r","t","a","i","n","l","y">>,
     <<"a","b","s","o","l","u","t","e","l","y">>,
     <<"c","l","e","a","r","l","y">>,
     <<"o","b","v","i","o","u","s","l","y">>,
     <<"u","n","d","o","u","b","t","e","d","l","y">>,
     <<"s","u","r","e","l","y">>,
     <<"p","r","e","c","i","s","e","l","y">>,
     <<"e","x","a","c","t","l","y">>,
     <<"g","u","a","r","a","n","t","e","e","d">>,
     <<"p","r","o","v","e","n">>,
     <<"e","s","t","a","b","l","i","s","h","e","d">>,
     <<"c","o","n","f","i","d","e","n","t">>,
     <<"a","s","s","u","r","e","d">>,
     <<"d","e","c","i","s","i","v","e">> >>

friendlyIndicators ==
  << <<"t","h","a","n","k","s">>,
     <<"p","l","e","a","s","e">>,
     <<"w","e","l","c","o","m","e">>,
     <<"a","p","p","r","e","c","i","a","t","e">>,
     <<"w","o","n","d","e","r","f","u","l">>,
     <<"g","r","e","a","t">>,
     <<"e","x","c","e","l","l","e","n","t">>,
     <<"a","m","a","z","i","n","g">>,
     <<"f","a","n","t","a","s","t","i","c">>,
     <<"l","o","v","e">>,
     <<"e","n","j","o","y">>,
     <<"h","a","p","p","y">>,
     <<"e","x","c","i","t","e","d">>,
     <<"d","e","l","i","g","h","t","e","d">>,
     <<"p","l","e","a","s","e","d">> >>

professionalIndicators ==
  << <<"r","e","g","a","r","d","i","n","g">>,
     <<"c","o","n","c","e","r","n","i","n","g">>,
     <<"p","u","r","s","u","a","n","t">>,
     <<"o","b","j","e","c","t","i","v","e">>,
     <<"a","n","a","l","y","s","i","s">>,
     <<"i","m","p","l","e","m","e","n","t","a","t","i","o","n">>,
     <<"s","t","r","a","t","e","g","y">>,
     <<"o","p","t","i","m","i","z","e">>,
     <<"l","e","v","e","r","a","g","e">>,
     <<"f","a","c","i","l","i","t","a","t","e">>,
     <<"c","o","m","p","r","e","h","e","n","s","i","v","e">>,
     <<"s","y","s","t","e","m","a","t","i","c">>,
     <<"m","e","t","h","o","d","o","l","o","g","y">>,
     <<"f","r","a","m","e","w","o","r","k">>,
     <<"i","n","i","t","i","a","t","i","v","e">> >>

businessTerms ==
  << <<"r","o","i">>,
     <<"k","p","i">>,
     <<"s","y","n","e","r","g","y">>,
     <<"s","t","a","k","e","h","o","l","d","e","r">>,
     <<"d","e","l","i","v","e","r","a","b","l","e">>,
     <<"m","i","l","e","s","t","o","n","e">> >>

passiveAuxiliaries ==
  << <<"w","a","s">>,
     <<"w","e","r","e">>,
     <<"i","s">>,
     <<"a","r","e">>,
     <<"b","e","e","n">>,
     <<"b","e","i","n","g">> >>

contractionEndings ==
  << <<"t">>,
     <<"r","e">>,
     <<"v","e">>,
     <<"l","l">>,
     <<"d">> >>

\* \b at the 0-based position k of s: exactly one of the characters before
\* and after the position is a word character
WordBoundaryAt(s, k) ==
  (k >= 1 /\ k <= Len(s) /\ IsWordChar(s[k]))
    # (k >= 0 /\ k < Len(s) /\ IsWordChar(s[k + 1]))

\* the number of matches of new RegExp(`\\b${indicator}\\b`, 'gi') in the
\* lowercased text
matchesOf(lowerText, indicator) ==
  Cardinality({k \in 0..(Len(lowerText) - Len(indicator)) :
                 /\ OccursAt(lowerText, indicator, k)
                 /\ WordBoundaryAt(lowerText, k)
                 /\ WordBoundaryAt(lowerText, k + Len(indicator))})

RECURSIVE countMatchesFrom(_, _, _, _)
countMatchesFrom(text, indicators, i, count) ==
  IF i > Len(indicators) THEN count
  ELSE countMatchesFrom(text, indicators, i + 1,
                        count + matchesOf(text, indicators[i]) * 5)

\* countMatches: 5 for every match of every indicator
countMatches(text, indicators) == countMatchesFrom(text, indicators, 1, 0)

\* s.split(',').length
commaPieces(s) == Cardinality({i \in 1..Len(s) : s[i] = ","}) + 1

\* sentences.some(s => s.split(',').length > 3)
hasComplexSentences(sentences) ==
  \E i \in 1..Len(sentences) : commaPieces(sentences[i]) > 3

\* [A-Za-z0-9_]
WordChars == Range(Upper) \cup Range(Lower) \cup Digits \cup {"_"}

\* the 0-based position after the maximal run of characters of the class that
\* starts at position k
RunEnd(s, k, class) ==
  LET stops == {j \in k..(Len(s) - 1) : s[j + 1] \notin class}
  IN  IF stops = {} THEN Len(s) ELSE CHOOSE j \in stops : \A j2 \in stops : j <= j2

\* /\b(was|were|is|are|been|being)\s+\w+ed\b/gi.test(lowerText): an auxiliary at a
\* word boundary, whitespace, and a word of at least three characters that
\* ends in "ed"
hasPassiveVoice(lowerText) ==
  \E a \in 1..Len(passiveAuxiliaries) : \E k \in 0..Len(lowerText) :
    LET aux       == passiveAuxiliaries[a]
        afterAux  == k + Len(aux)
        wordStart == RunEnd(lowerText, afterAux, Whitespace)
        wordEnd   == RunEnd(lowerText, wordStart, WordChars)
    IN  /\ OccursAt(lowerText, aux, k)
        /\ WordBoundaryAt(lowerText, k)
        /\ wordStart > afterAux
        /\ wordEnd - wordStart >= 3
        /\ SubSeq(lowerText, wordEnd - 1, wordEnd) = <<"e", "d">>

\* /\b\w+[''](?:t|re|ve|ll|d)\b/gi.test(text): a word character, an
\* apostrophe, and one of the endings followed by a word boundary
hasContractions(text) ==
  \E p \in 2..Len(text) : \E e \in 1..Len(contractionEndings) :
    /\ text[p] = "'"
    /\ IsWordChar(text[p - 1])
    /\ OccursAt(toLowerCase(SubSeq(text, p + 1, Min(Len(text), p + 2))),
                contractionEndings[e], 0)
    /\ WordBoundaryAt(text, p + Len(contractionEndings[e]))

\* the sum of s.split(/\s+/).length over the sentences
RECURSIVE sentenceWordsSum(_, _)
sentenceWordsSum(sentences, sum) ==
  IF sentences = <<>> THEN sum
  ELSE sentenceWordsSum(Tail(sentences), sum + Len(splitWhitespace(Head(sentences))))

\* avgLength < 12; for no sentence avgLength is NaN and the test is false
hasShortSentences(sentences) ==
  /\ Len(sentences) > 0
  /\ sentenceWordsSum(sentences, 0) < 12 * Len(sentences)

NeitherQuestionNorExclamation(s) == "?" \notin Range(s) /\ "!" \notin Range(s)

\* sentences.filter(s => !s.includes('?') && !s.includes('!')).length
\*   > sentences.length * 0.7
hasDeclarativeStatements(sentences) ==
  10 * Len(SelectSeq(sentences, NeitherQuestionNorExclamation)) > 7 * Len(sentences)

hasExclamations(text) == "!" \in Range(text)
hasQuestions(text) == "?" \in Range(text)

\* businessTerms.some(term => text.includes(term))
hasBusinessTerms(text) ==
  \E i \in 1..Len(businessTerms) : includes(text, businessTerms[i])

\* "Thanks! "
ToneThanks == <<"T","h","a","n","k","s","!"," ">>
\* "Really? "
ToneReally == <<"R","e","a","l","l","y","?"," ">>
\* "Clearly it is. "
ToneClearly == <<"C","l","e","a","r","l","y"," ","i","t"," ","i","s","."," ">>
\* "...... "
ToneDots == <<".",".",".",".",".","."," ">>
\* "However, thus, hence, roi. "
ToneHowever == <<"H","o","w","e","v","e","r",","," ","t","h","u","s",","," ","h","e","n","c","e",","," ","r","o","i","."," ">>
\* "it was fixed "
ToneWasFixed == <<"i","t"," ","w","a","s"," ","f","i","x","e","d"," ">>
\* "don't okay "
ToneDontOkay == <<"d","o","n","'","t"," ","o","k","a","y"," ">>

TonePieces ==
  {ToneThanks, ToneReally, ToneClearly, ToneDots, ToneHowever, ToneWasFixed, ToneDontOkay}

ToneTexts == {Flatten(q) : q \in SeqsUpTo(TonePieces, MaxTextPieces)}

\* the order of Object.entries(scores)
ToneOrder == <<"formal", "casual", "confident", "friendly", "professional">>

\* Math.max(...Object.values(scores))
maxScoreOf(scores) ==
  CHOOSE m \in {scores[t] : t \in Range(ToneOrder)} :
    \A t \in Range(ToneOrder) : scores[t] <= m

\* mutant of dominantToneOf: the last category with the maximal score
dominantToneOfLast(scores) ==
  ToneOrder[CHOOSE i \in 1..Len(ToneOrder) :
              /\ scores[ToneOrder[i]] = maxScoreOf(scores)
              /\ \A j \in (i + 1)..Len(ToneOrder) :
                   scores[ToneOrder[j]] # maxScoreOf(scores)]

\* Object.entries(scores).find(([_, score]) => score === maxScore)?.[0]
dominantToneOf(scores) ==
  ToneOrder[CHOOSE i \in 1..Len(ToneOrder) :
              /\ scores[ToneOrder[i]] = maxScoreOf(scores)
              /\ \A j \in 1..(i - 1) : scores[ToneOrder[j]] # maxScoreOf(scores)]

\* Object.values(scores).reduce((sum, score) => sum + score, 0)
totalScoreOf(scores) ==
  scores["formal"] + scores["casual"] + scores["confident"]
    + scores["friendly"] + scores["professional"]

\* the default confidence of a text without any score
DefaultConfidence == 50

\* mutant of confidenceOf: the share of the maximal score in per mille
confidenceOfPerMille(maxScore, totalScore) ==
  IF totalScore > 0 THEN MathRound(maxScore * 1000, totalScore) ELSE DefaultConfidence

\* totalScore > 0 ? Math.min(100, Math.round((maxScore / totalScore) * 100)) : 50
confidenceOf(maxScore, totalScore) ==
  IF totalScore > 0
  THEN Min(100, MathRound(maxScore * 100, totalScore))
  ELSE DefaultConfidence

\* analyzeTone: the tone and the confidence, with the scores and the result
\* of hasDeclarativeStatements they were computed from
analyzeTone(text) ==
  LET lowerText == toLowerCase(text)
      sentences == sentencesOf(text)
      declarative == hasDeclarativeStatements(sentences)
      scores ==
        [formal |-> countMatches(lowerText, formalIndicators)
                      + (IF hasComplexSentences(sentences) THEN 20 ELSE 0)
                      + (IF hasPassiveVoice(lowerText) THEN 15 ELSE 0),
         casual |-> countMatches(lowerText, casualIndicators)
                      + (IF hasContractions(text) THEN 15 ELSE 0)
                      + (IF hasShortSentences(sentences) THEN 10 ELSE 0),
         confident |-> countMatches(lowerText, confidentIndicators)
                         + (IF declarative THEN 15 ELSE 0),
         friendly |-> countMatches(lowerText, friendlyIndicators)
                        + (IF hasExclamations(text) THEN 10 ELSE 0)
                        + (IF hasQuestions(text) THEN 5 ELSE 0),
         professional |-> countMatches(lowerText, professionalIndicators)
                            + (IF hasBusinessTerms(lowerText) THEN 15 ELSE 0)]
  IN  [tone_detected |-> dominantToneOf(scores),
       confidence |-> confidenceOf(maxScoreOf(scores), totalScoreOf(scores)),
       scores |-> scores,
       declarative |-> declarative,
       confidentMatches |-> countMatches(lowerText, confidentIndicators)]

\* text.length < 20 is refused
MinToneLength == 20

\* the handler of analyze-tone, for a POST request with a JSON body
serveToneHandler(text, documentId) ==
  IF text = <<>> \/ documentId = ""
  THEN [status |-> 400, body |-> [error |-> "Text and documentId are required"]]
  ELSE IF Len(text) > MaxTextLength
  THEN [status |-> 400, body |-> [error |-> "Text too long (max 50,000 characters)"]]
  ELSE IF Len(text) < MinToneLength
  THEN [status |-> 400,
        body |-> [error |-> "Text too short for tone analysis (min 20 characters)"]]
  ELSE [status |-> 200, body |-> [tone_analysis |-> analyzeTone(text)]]

InitTone ==
  /\ currentDocument = NoDoc
  /\ content = [d \in Docs |-> <<>>]
  /\ suggestions = <<>>
  /\ debounceTimeout = 0
  /\ timers = {}
  /\ running = {}
  /\ nextId = 1
  /\ edits = 0
  /\ gen = [d \in Docs |-> 0]
  /\ calls = <<>>
  /\ superseded = {}
  /\ dispatchLog = <<>>
  /\ callbackLog = <<>>
  /\ memo = MemoTables
  /\ rc \in {[phase |-> "request", text |-> t, response |-> NoResponse] :
               t \in ToneTexts}

serveTone ==
  /\ rc.phase = "request"
  /\ rc' = [rc EXCEPT !.phase = "answered",
                      !.response = serveToneHandler(rc.text, "d1")]
  /\ UNCHANGED editorVars

NextTone == serveTone

SpecTone == InitTone /\ [][NextTone]_vars

ToneAnswered == rc.phase = "answered" /\ rc.response.status = 200
Tone == rc.response.body.tone_analysis


\* C18: the dominant tone has the maximal score of the five, no category
\* before it in the order formal, casual, confident, friendly, professional
\* has that score, and when the five scores are equal (all zero included) it
\* is formal.
C18_DominantIsFirstMaximal ==
  ToneAnswered =>
    LET scores == Tone.scores
        d == CHOOSE i \in 1..Len(ToneOrder) : ToneOrder[i] = Tone.tone_detected
    IN  /\ Tone.tone_detected \in Range(ToneOrder)
        /\ \A i \in 1..Len(ToneOrder) : scores[ToneOrder[i]] <= scores[ToneOrder[d]]
        /\ \A i \in 1..(d - 1) : scores[ToneOrder[i]] < scores[ToneOrder[d]]
        /\ (\A i \in 1..Len(ToneOrder) : scores[ToneOrder[i]] = scores["formal"])
             => Tone.tone_detected = "formal"

\* two categories share the maximal score, formal is below it, and the first
\* of the two is the dominant tone
C18_Witness ==
  /\ ToneAnswered
  /\ \E i, j \in 2..Len(ToneOrder) :
       /\ i < j
       /\ Tone.scores[ToneOrder[i]] = maxScoreOf(Tone.scores)
       /\ Tone.scores[ToneOrder[j]] = maxScoreOf(Tone.scores)
       /\ Tone.scores["formal"] < maxScoreOf(Tone.scores)
       /\ Tone.tone_detected = ToneOrder[i]

\* the positions (1-based) where the run of terminators after a sentence of
\* the text starts: the text before the run, back to the run before it, is
\* not blank
SentenceEndings(text) ==
  {k \in 1..Len(text) :
     /\ text[k] \in SentenceEnders
     /\ (k = 1 \/ text[k - 1] \notin SentenceEnders)
     /\ \E j \in 1..(k - 1) :
          /\ ~IsWhitespace(text[j])
          /\ \A i \in j..(k - 1) : text[i] \notin SentenceEnders}

\* the sentences of the text that end in "?" or "!"
QuestionsAndExclamations(text) ==
  {k \in SentenceEndings(text) : text[RunEnd(text, k - 1, SentenceEnders)] \in {"?", "!"}}

\* C19 as stated: the confident score holds its boost of 15 exactly when more
\* than 70% of the sentences are neither questions nor exclamations.  The
\* sentences are cut at the terminators, so none of them holds a "?" or "!",
\* and every text with a sentence gets the boost.
C19_BoostOnlyForDeclarativeTexts ==
  ToneAnswered =>
    LET n  == Len(sentencesOf(rc.text))
        qe == Cardinality(QuestionsAndExclamations(rc.text))
    IN  Tone.scores["confident"] - Tone.confidentMatches
          = IF 10 * (n - qe) > 7 * n THEN 15 ELSE 0

analysisOfAnyContent(c, lt) ==
  IF lt.kind = "invoke" THEN basicSpellCheck(c)
  ELSE LET response == serveHandler(normalizeContent(c), "d1", lt)
       IN  IF response.status = 200
           THEN suggestionsOfData(response.body)
           ELSE basicSpellCheck(c)

\* C21 as stated: every non-empty content, contents of 5 characters or fewer
\* such as "teh" included, is analysed and its suggestions are delivered.
C21_EveryNonEmptyContentAnalysed ==
  (rc.phase = "delivered" /\ rc.content # <<>>) =>
    rc.suggestions = analysisOfAnyContent(rc.content, rc.lt)

\* C21, amended: a content of more than 5 characters that is not blank is
\* analysed and its suggestions are delivered; a content of 5 characters or
\* fewer is not analysed and the displayed suggestions are cleared; a blank
\* content gets no suggestion.
C21_OnlyContentAboveFiveAnalysed ==
  rc.phase = "delivered" =>
    /\ (Len(rc.content) > 5 /\ trim(rc.content) # <<>>) =>
         rc.suggestions = analysisOfAnyContent(rc.content, rc.lt)
    /\ (Len(rc.content) <= 5 \/ trim(rc.content) = <<>>) => rc.suggestions = <<>>

\* the content "teh": its dictionary hit is not delivered
C21_Witness ==
  /\ rc.phase = "delivered"
  /\ rc.content = TextTeh
  /\ rc.lt.kind = "throw"
  /\ basicSpellCheck(rc.content) # <<>>
  /\ rc.suggestions = <<>>

(***************************************************************************)
(* The errors of the readability analysis (specification SpecReadability). *)
(***************************************************************************)
\* C22 as stated: a text that passes the length validation and has no
\* sentence or no word is refused as an input error, distinct from the
\* failure of the analysis, and no scores are returned.  The error thrown by
\* calculateReadabilityScores is caught by the handler's catch block, which
\* answers as for every failure.
C22_NoSentenceIsInvalidInput ==
  (/\ rc.phase = "answered"
   /\ Len(rc.text) >= MinReadabilityLength
   /\ Len(rc.text) <= MaxTextLength
   /\ (Len(sentencesOf(rc.text)) = 0 \/ Len(wordsOf(rc.text)) = 0)) =>
    /\ rc.response.status # 200
    /\ "flesch_reading_ease" \notin DOMAIN rc.response.body
    /\ rc.response.status # 500
    /\ rc.response.body.error # "Readability analysis failed"

(***************************************************************************)
(* The auth store: signIn and retryOperation (specification SpecAuth).     *)
(***************************************************************************)
retryableMessages ==
  << <<"f","a","i","l","e","d"," ","t","o"," ","f","e","t","c","h">>,
     <<"n","e","t","w","o","r","k"," ","e","r","r","o","r">>,
     <<"e","r","r","_","n","a","m","e","_","n","o","t","_","r","e","s","o","l","v","e","d">>,
     <<"e","r","r","_","n","e","t","w","o","r","k">>,
     <<"e","r","r","_","i","n","t","e","r","n","e","t","_","d","i","s","c","o","n","n","e","c","t","e","d">>,
     <<"e","r","r","_","c","o","n","n","e","c","t","i","o","n","_","t","i","m","e","d","_","o","u","t">>,
     <<"t","i","m","e","o","u","t">> >>

\* the messages of the errors the sign-in call fails with in the model:
\* "Failed to fetch", "Network Error", "net::ERR_NAME_NOT_RESOLVED" come from
\* the network, "Invalid credentials" and "Email not confirmed" from the
\* authentication service
MsgFailedToFetch == <<"F","a","i","l","e","d"," ","t","o"," ","f","e","t","c","h">>
MsgNetworkError == <<"N","e","t","w","o","r","k"," ","E","r","r","o","r">>
MsgNameNotResolved == <<"n","e","t",":",":","E","R","R","_","N","A","M","E","_","N","O","T","_","R","E","S","O","L","V","E","D">>
MsgInvalidCredentials == <<"I","n","v","a","l","i","d"," ","c","r","e","d","e","n","t","i","a","l","s">>
MsgEmailNotConfirmed == <<"E","m","a","i","l"," ","n","o","t"," ","c","o","n","f","i","r","m","e","d">>

NetworkMessages == {MsgFailedToFetch, MsgNetworkError, MsgNameNotResolved}
AuthMessages == {MsgInvalidCredentials, MsgEmailNotConfirmed}

NoUser == "null"
DEMO_USER == "demo-user-123"
SignedInUsers == {"123"}

\* mutant of isRetryableError: every error is taken for a network error
isRetryableErrorAlways(error) == TRUE

\* isRetryableError: the lowercased message holds one of the phrases
isRetryableError(error) ==
  LET errorMessage == toLowerCase(error.message)
  IN  \E i \in 1..Len(retryableMessages) : includes(errorMessage, retryableMessages[i])

\* the delay parameter of retryOperation, in milliseconds
RetryDelay == 1000

AuthIdle(user) ==
  [phase |-> "idle", user |-> user, before |-> user, loading |-> FALSE,
   attempt |-> 0, calls |-> 0,
   errors |-> <<>>, waits |-> <<>>, outcome |-> "none",
   result |-> [success |-> FALSE, error |-> <<>>]]

InitAuth ==
  /\ currentDocument = NoDoc
  /\ content = [d \in Docs |-> <<>>]
  /\ suggestions = <<>>
  /\ debounceTimeout = 0
  /\ timers = {}
  /\ running = {}
  /\ nextId = 1
  /\ edits = 0
  /\ gen = [d \in Docs |-> 0]
  /\ calls = <<>>
  /\ superseded = {}
  /\ dispatchLog = <<>>
  /\ callbackLog = <<>>
  /\ memo = MemoTables
  /\ rc \in {AuthIdle(u) : u \in {DEMO_USER, NoUser}}

\* signIn up to the first call of the operation: set({ loading: true })
signIn ==
  /\ rc.phase = "idle"
  /\ rc' = [rc EXCEPT !.phase = "attempt", !.loading = TRUE]
  /\ UNCHANGED editorVars

\* the catch block of signIn: the demo user, and success
signInCatch(state, error) ==
  [state EXCEPT !.phase = "done", !.outcome = "threw", !.user = DEMO_USER,
                !.loading = FALSE,
                !.result = [success |-> TRUE, error |-> <<>>]]

\* an attempt of the operation fails: signInWithPassword rejects or returns
\* an error, which the operation throws.  retryOperation rethrows it when it
\* is not retryable or the attempt is the last one, and signIn catches it;
\* otherwise retryOperation starts its timer.
operationFails(message) ==
  /\ rc.phase = "attempt"
  /\ LET error == [message |-> message]
         called == [rc EXCEPT !.calls = @ + 1, !.errors = Append(@, message)]
     IN  rc' = IF ~isRetryableError(error) \/ rc.attempt = MaxRetries
               THEN signInCatch(called, error)
               ELSE [called EXCEPT !.phase = "waiting",
                                   !.waits = Append(@, RetryDelay * 2^rc.attempt)]
  /\ UNCHANGED editorVars

\* the timer of retryOperation elapses: the next iteration of the loop
retryTimerElapses ==
  /\ rc.phase = "waiting"
  /\ rc' = [rc EXCEPT !.phase = "attempt", !.attempt = @ + 1]
  /\ UNCHANGED editorVars

\* an attempt succeeds: retryOperation returns the data, and signIn sets the
\* user and answers success
operationSucceeds(user) ==
  /\ rc.phase = "attempt"
  /\ rc' = [rc EXCEPT !.phase = "done", !.outcome = "returned", !.calls = @ + 1,
                      !.user = user, !.loading = FALSE,
                      !.result = [success |-> TRUE, error |-> <<>>]]
  /\ UNCHANGED editorVars

NextAuth ==
  \/ signIn
  \/ \E message \in NetworkMessages \cup AuthMessages : operationFails(message)
  \/ retryTimerElapses
  \/ \E user \in SignedInUsers : operationSucceeds(user)

SpecAuth == InitAuth /\ [][NextAuth]_vars


(***************************************************************************)
(* C23: retryOperation calls the operation at most MaxRetries + 1 times;   *)
(* it calls it again only after a failure with a network message, and      *)
(* waits RetryDelay * 2^k after the failure of attempt k; a success ends   *)
(* it with one call more than there were failures and signs the user in;   *)
(* it rethrows at once, without waiting, after a failure that is not a     *)
(* network failure or after the last attempt.                              *)
(***************************************************************************)
C23_RetryOnlyNetworkFailuresWithBackoff ==
  rc.phase \in {"attempt", "waiting", "done"} =>
    /\ rc.calls <= MaxRetries + 1
    /\ \A k \in 1..Len(rc.errors) :
         (rc.calls > k \/ rc.phase \in {"attempt", "waiting"}) =>
           /\ rc.errors[k] \in NetworkMessages
           /\ k <= MaxRetries
           /\ Len(rc.waits) >= k
           /\ rc.waits[k] = RetryDelay * 2^(k - 1)
    /\ (rc.phase = "done" /\ rc.outcome = "returned") =>
         /\ rc.calls = Len(rc.errors) + 1
         /\ rc.result.success
         /\ rc.user \in SignedInUsers
    /\ (rc.phase = "done" /\ rc.outcome = "threw") =>
         /\ rc.calls = Len(rc.errors)
         /\ Len(rc.waits) = Len(rc.errors) - 1
         /\ \/ rc.errors[Len(rc.errors)] \notin NetworkMessages
            \/ rc.calls = MaxRetries + 1

\* two network failures, then a success: three calls, waits of 1000 and 2000
C23_Witness ==
  /\ rc.phase = "done"
  /\ rc.outcome = "returned"
  /\ rc.errors = <<MsgFailedToFetch, MsgFailedToFetch>>
  /\ rc.calls = 3
  /\ rc.waits = <<1000, 2000>>

(***************************************************************************)
(* C24: when the sign-in call fails with an authentication error, signIn   *)
(* answers success = false with the error's message, the user is the one   *)
(* before the call (null when nobody was signed in) and loading is false.  *)
(***************************************************************************)
C24_AuthErrorIsReported ==
  (/\ rc.phase = "done"
   /\ rc.outcome = "threw"
   /\ rc.errors[Len(rc.errors)] \in AuthMessages) =>
    /\ rc.result.success = FALSE
    /\ rc.result.error = rc.errors[Len(rc.errors)]
    /\ rc.user = rc.before
    /\ rc.loading = FALSE


(***************************************************************************)
(* The document store (specifications SpecStore and FairSpecStore).  The   *)
(* store's state, the auto-save timer and the requests in flight are the   *)
(* fields of rc; a document is its id, title and content.                  *)
(***************************************************************************)
MaxUpdates == 2
MaxCreates == 1
MaxDeletes == 1
MaxLoads == 1

NullDocument == [id |-> "null", title |-> "", content |-> ""]
NullError == "null"

\* the documents of loadMockDocuments
mockDocs ==
  << [id |-> "doc_1", title |-> "Welcome to Writing Assistant",
      content |-> "This is your first document. Start writing here..."],
     [id |-> "doc_2", title |-> "Sample Document",
      content |-> "This is a sample document with some text to demonstrate the editor."] >>

\* the ids the database gives to inserted documents, in order
InsertedIds == <<"doc_3", "doc_4", "doc_5">>
DocIds == {"doc_1", "doc_2"} \cup Range(InsertedIds)

\* what the user types, and the title of a new document
TypedContents == {"first draft", "second draft"}
Titles == {"New Document"}

\* the answers of supabase.auth.getUser
GetUserAnswers == {"null", "user123"}

NoSaveTimeout == [armed |-> FALSE, documentId |-> "null", content |-> ""]

StoreBefore(state) ==
  [documents |-> state.documents, currentDocument |-> state.currentDocument,
   inserts |-> state.inserts]

\* the record of the step a handler has just taken
StoreStep(state, op, id, outcome, result) ==
  [op |-> op, id |-> id, outcome |-> outcome, result |-> result,
   before |-> StoreBefore(state)]

InitStore ==
  /\ currentDocument = NoDoc
  /\ content = [d \in Docs |-> <<>>]
  /\ suggestions = <<>>
  /\ debounceTimeout = 0
  /\ timers = {}
  /\ running = {}
  /\ nextId = 1
  /\ edits = 0
  /\ gen = [d \in Docs |-> 0]
  /\ calls = <<>>
  /\ superseded = {}
  /\ dispatchLog = <<>>
  /\ callbackLog = <<>>
  /\ memo = MemoTables
  /\ rc = [phase |-> "store", documents |-> <<>>, currentDocument |-> NullDocument,
           loading |-> FALSE, error |-> NullError, saveTimeout |-> NoSaveTimeout,
           requests |-> EmptyBag, inserts |-> 0,
           unsent |-> [id \in DocIds |-> "null"],
           updates |-> 0, creates |-> 0, deletes |-> 0, loads |-> 0,
           last |-> [op |-> "create", id |-> "null", outcome |-> "none",
                     result |-> NullDocument,
                     before |-> [documents |-> <<>>,
                                 currentDocument |-> NullDocument, inserts |-> 0]]]

\* a request in flight; the requests in flight are a bag
Request(kind, id, title, c) ==
  SetToBag({[kind |-> kind, id |-> id, title |-> title, content |-> c]})

loadMockDocuments ==
  /\ rc.phase = "store"
  /\ rc.loads < MaxLoads
  /\ rc' = [rc EXCEPT !.documents = mockDocs, !.loads = @ + 1,
                      !.last = StoreStep(rc, "loadMockDocuments", "null", "ok", NullDocument)]
  /\ UNCHANGED editorVars

\* setCurrentDocument of the store, called with a document of the list
selectDocument(document) ==
  /\ rc.phase = "store"
  /\ rc.currentDocument # document
  /\ rc' = [rc EXCEPT !.currentDocument = document,
                      !.last = StoreStep(rc, "setCurrentDocument", document.id, "ok", NullDocument)]
  /\ UNCHANGED editorVars

\* documents.map(doc => doc.id === updated.id ? updated : doc)
replaceDocument(documents, updated) ==
  SubSeq([i \in 1..Len(documents) |->
            IF documents[i].id = updated.id THEN updated ELSE documents[i]],
         1, Len(documents))

\* debouncedSave: clearTimeout(saveTimeout), then one timer for this call
debouncedSave(documentId, c) ==
  [armed |-> TRUE, documentId |-> documentId, content |-> c]

updateContent(c) ==
  /\ rc.phase = "store"
  /\ rc.updates < MaxUpdates
  /\ rc' = IF rc.currentDocument = NullDocument
           THEN [rc EXCEPT !.updates = @ + 1,
                           !.last = StoreStep(rc, "updateContent", "null", "none", NullDocument)]
           ELSE LET updated == [rc.currentDocument EXCEPT !.content = c]
                IN  [rc EXCEPT !.updates = @ + 1,
                               !.currentDocument = updated,
                               !.documents = replaceDocument(@, updated),
                               !.saveTimeout = debouncedSave(updated.id, c),
                               !.unsent[updated.id] = c,
                               !.last = StoreStep(rc, "updateContent", updated.id, "ok", NullDocument)]
  /\ UNCHANGED editorVars

\* the auto-save timer fires: updateDocument(documentId, { content }) sends
\* its update to the database
saveTimerFires ==
  /\ rc.phase = "store"
  /\ rc.saveTimeout.armed
  /\ LET t == rc.saveTimeout
     IN  rc' = [rc EXCEPT !.saveTimeout = NoSaveTimeout,
                          !.requests = @ (+) Request("update", t.documentId, "", t.content),
                          !.unsent[t.documentId] =
                             IF @ = t.content THEN "null" ELSE @,
                          !.last = StoreStep(rc, "debouncedSave", t.documentId, "sent", NullDocument)]
  /\ UNCHANGED editorVars

\* documents.map(doc => doc.id === id ? { ...doc, ...updates } : doc)
mergeContent(documents, id, c) ==
  SubSeq([i \in 1..Len(documents) |->
            IF documents[i].id = id THEN [documents[i] EXCEPT !.content = c]
            ELSE documents[i]],
         1, Len(documents))

\* the database answers an update: the rest of updateDocument
updateDocumentAnswers(request, failed) ==
  /\ rc.phase = "store"
  /\ BagIn(request, rc.requests)
  /\ request.kind = "update"
  /\ rc' = IF failed
           THEN [rc EXCEPT !.requests = @ (-) SetToBag({request}),
                           !.error = "Failed to update document",
                           !.last = StoreStep(rc, "updateDocument", request.id, "error", NullDocument)]
           ELSE [rc EXCEPT !.requests = @ (-) SetToBag({request}),
                           !.documents = mergeContent(@, request.id, request.content),
                           !.currentDocument =
                              IF @.id = request.id
                              THEN [@ EXCEPT !.content = request.content] ELSE @,
                           !.last = StoreStep(rc, "updateDocument", request.id, "ok", NullDocument)]
  /\ UNCHANGED editorVars

\* deleteDocument up to its await: the delete is sent to the database
deleteDocument(id) ==
  /\ rc.phase = "store"
  /\ rc.deletes < MaxDeletes
  /\ rc' = [rc EXCEPT !.deletes = @ + 1,
                      !.requests = @ (+) Request("delete", id, "", ""),
                      !.last = StoreStep(rc, "deleteDocument", id, "sent", NullDocument)]
  /\ UNCHANGED editorVars

\* mutant of documentsWithout: every document stays
documentsWithoutKeepsAll(documents, id) == documents

\* documents.filter(doc => doc.id !== id)
documentsWithout(documents, id) ==
  LET keep(doc) == doc.id # id IN SelectSeq(documents, keep)

\* the database answers a delete: the rest of deleteDocument
deleteDocumentAnswers(request, failed) ==
  /\ rc.phase = "store"
  /\ BagIn(request, rc.requests)
  /\ request.kind = "delete"
  /\ rc' = IF failed
           THEN [rc EXCEPT !.requests = @ (-) SetToBag({request}),
                           !.error = "Failed to delete document",
                           !.last = StoreStep(rc, "deleteDocument", request.id, "error", NullDocument)]
           ELSE [rc EXCEPT !.requests = @ (-) SetToBag({request}),
                           !.documents = documentsWithout(@, request.id),
                           !.currentDocument =
                              IF @.id = request.id THEN NullDocument ELSE @,
                           !.last = StoreStep(rc, "deleteDocument", request.id, "ok", NullDocument)]
  /\ UNCHANGED editorVars

\* createDocument up to its first await: loading, and the call of getUser
createDocument(title) ==
  /\ rc.phase = "store"
  /\ rc.creates < Min(MaxCreates, Len(InsertedIds))
  /\ rc' = [rc EXCEPT !.creates = @ + 1,
                      !.loading = TRUE,
                      !.error = NullError,
                      !.requests = @ (+) Request("getUser", "null", title, ""),
                      !.last = StoreStep(rc, "createDocument", "null", "started", NullDocument)]
  /\ UNCHANGED editorVars

\* mutant of getUserAnswers' test: the insert is issued for any answer
isAuthenticatedAlways(user) == TRUE

\* if (!user) throw new Error('Not authenticated')
isAuthenticated(user) == user # "null"

\* getUser answers: without a user createDocument throws, and its catch
\* block sets the error and returns null; with a user the insert is issued
getUserAnswers(request, user) ==
  /\ rc.phase = "store"
  /\ BagIn(request, rc.requests)
  /\ request.kind = "getUser"
  /\ rc' = IF ~isAuthenticated(user)
           THEN [rc EXCEPT !.requests = @ (-) SetToBag({request}),
                           !.error = "Not authenticated",
                           !.loading = FALSE,
                           !.last = StoreStep(rc, "getUser", user, "error", NullDocument)]
           ELSE [rc EXCEPT !.requests = (@ (-) SetToBag({request})) (+)
                                          Request("insert", "null", request.title, ""),
                           !.inserts = @ + 1,
                           !.last = StoreStep(rc, "getUser", user, "insert", NullDocument)]
  /\ UNCHANGED editorVars

\* the database answers the insert: the rest of createDocument
insertAnswers(request, failed) ==
  /\ rc.phase = "store"
  /\ BagIn(request, rc.requests)
  /\ request.kind = "insert"
  /\ rc' = IF failed
           THEN [rc EXCEPT !.requests = @ (-) SetToBag({request}),
                           !.error = "Failed to create document",
                           !.loading = FALSE,
                           !.last = StoreStep(rc, "createDocument", "null", "error", NullDocument)]
           ELSE LET data == [id |-> InsertedIds[rc.inserts], title |-> request.title,
                             content |-> ""]
                IN  [rc EXCEPT !.requests = @ (-) SetToBag({request}),
                               !.documents = <<data>> \o @,
                               !.currentDocument = data,
                               !.loading = FALSE,
                               !.last = StoreStep(rc, "createDocument", data.id, "ok", data)]
  /\ UNCHANGED editorVars

\* the answers of the database and of the auth service
storeAnswers ==
  \E request \in BagToSet(rc.requests) :
    \/ \E failed \in BOOLEAN : updateDocumentAnswers(request, failed)
    \/ \E failed \in BOOLEAN : deleteDocumentAnswers(request, failed)
    \/ \E user \in GetUserAnswers : getUserAnswers(request, user)
    \/ \E failed \in BOOLEAN : insertAnswers(request, failed)

NextStore ==
  \/ loadMockDocuments
  \/ \E document \in Range(rc.documents) \cup {NullDocument} : selectDocument(document)
  \/ \E c \in TypedContents : updateContent(c)
  \/ saveTimerFires
  \/ \E id \in {"doc_1", "doc_2"} : deleteDocument(id)
  \/ \E title \in Titles : createDocument(title)
  \/ storeAnswers

SpecStore == InitStore /\ [][NextStore]_vars

\* the timer runs out and every request is answered
FairSpecStore ==
  /\ SpecStore
  /\ WF_vars(saveTimerFires)
  /\ WF_vars(storeAnswers)


(***************************************************************************)
(* C25: when deleteDocument(id) succeeds, documents holds no entry with    *)
(* that id, the other entries are the ones of before in the same order,    *)
(* and currentDocument is null if it was the deleted document and is       *)
(* unchanged otherwise.                                                    *)
(***************************************************************************)
C25_DeleteRemovesOnlyThatDocument ==
  (rc.phase = "store" /\ rc.last.op = "deleteDocument" /\ rc.last.outcome = "ok") =>
    LET before == rc.last.before
        others == {i \in 1..Len(before.documents) : before.documents[i].id # rc.last.id}
    IN  /\ \A i \in 1..Len(rc.documents) : rc.documents[i].id # rc.last.id
        /\ Len(rc.documents) = Cardinality(others)
        /\ \A i \in others :
             rc.documents[Cardinality({j \in others : j <= i})] = before.documents[i]
        /\ rc.currentDocument =
             IF before.currentDocument.id = rc.last.id THEN NullDocument
             ELSE before.currentDocument

\* the first of two documents is deleted while it is the current document
C25_Witness ==
  /\ rc.phase = "store"
  /\ rc.last.op = "deleteDocument"
  /\ rc.last.outcome = "ok"
  /\ rc.last.id = "doc_1"
  /\ Len(rc.last.before.documents) = 2
  /\ rc.last.before.currentDocument.id = "doc_1"
  /\ Len(rc.documents) = 1
  /\ rc.documents[1].id = "doc_2"
  /\ rc.currentDocument = NullDocument

(***************************************************************************)
(* C26: createDocument without an authenticated user returns null, sets    *)
(* error to "Not authenticated", issues no insert, ends with loading       *)
(* false, and leaves documents and currentDocument as they were.           *)
(***************************************************************************)
C26_CreateWithoutUserChangesNothing ==
  /\ (rc.phase = "store" /\ rc.last.op = "createDocument"
                         /\ rc.last.outcome = "started") =>
       /\ rc.documents = rc.last.before.documents
       /\ rc.currentDocument = rc.last.before.currentDocument
       /\ rc.inserts = rc.last.before.inserts
  /\ (rc.phase = "store" /\ rc.last.op = "getUser" /\ rc.last.id = "null") =>
       /\ rc.last.result = NullDocument
       /\ rc.last.outcome = "error"
       /\ rc.error = "Not authenticated"
       /\ rc.loading = FALSE
       /\ rc.inserts = rc.last.before.inserts
       /\ rc.documents = rc.last.before.documents
       /\ rc.currentDocument = rc.last.before.currentDocument

\* getUser has answered without a user while documents were loaded and one
\* of them was the current document
C26_Witness ==
  /\ rc.phase = "store"
  /\ rc.last.op = "getUser"
  /\ rc.last.id = "null"
  /\ rc.error = "Not authenticated"
  /\ Len(rc.documents) = 2
  /\ rc.currentDocument # NullDocument

(***************************************************************************)
(* C29: auto-save persists the last edit of every document: once the last  *)
(* content given to updateContent for a document has not been sent to the  *)
(* database, it is eventually sent (or replaced by a later edit that is),  *)
(* unless the document is deleted.                                         *)
(***************************************************************************)
C29_LastEditEventuallySent ==
  \A id \in DocIds :
    (rc.unsent[id] # "null") ~>
      (rc.unsent[id] = "null" \/ \A i \in 1..Len(rc.documents) : rc.documents[i].id # id)

(***************************************************************************)
(* C30: the completion of a save changes neither the content of            *)
(* currentDocument nor that of any entry of documents.                     *)
(***************************************************************************)
C30_SaveCompletionKeepsMemory ==
  (rc.phase = "store" /\ rc.last.op = "updateDocument" /\ rc.last.outcome = "ok") =>
    /\ rc.currentDocument = rc.last.before.currentDocument
    /\ rc.documents = rc.last.before.documents


(***************************************************************************)
(* C27: after a suggestion is accepted, every suggestion that remains      *)
(* displayed and designated its original_text before, outside the span of  *)
(* the accepted one, still designates it in the updated content, with      *)
(* 0 <= start <= end <= length of the content; also when the accepted      *)
(* suggestion's suggested_text and original_text differ in length and the  *)
(* remaining suggestion lies after it.                                     *)
(***************************************************************************)
C27_RemainingSuggestionsStayAligned ==
  rc.phase = "accepted" =>
    \A k \in 1..Len(rc.suggestions) :
      LET r == rc.suggestions[k]
      IN  (/\ substring(rc.before, r.start_index, r.end_index) = r.original_text
           /\ r.end_index <= Len(rc.before)
           /\ \/ r.end_index <= rc.accepted.start_index
              \/ r.start_index >= rc.accepted.end_index) =>
            /\ 0 <= r.start_index
            /\ r.start_index <= r.end_index
            /\ r.end_index <= Len(rc.content)
            /\ substring(rc.content, r.start_index, r.end_index) = r.original_text


\* the last edit of more than 5 characters has been followed by an edit of
\* the same document, which left 5 characters or fewer (a longer one would
\* be the last call)
ShortEditAfterLastCall ==
  /\ calls # <<>>
  /\ gen[calls[Len(calls)].documentId] > calls[Len(calls)].gen

(***************************************************************************)
(* C28: after an edit that leaves the content at 5 characters or fewer,    *)
(* the displayed suggestions stay empty until a later edit of more than 5  *)
(* characters has been analysed: neither a pending debounce timer nor an   *)
(* analysis in flight from an earlier edit fills the list again.           *)
(***************************************************************************)
C28_ListStaysEmptyAfterShortEdit ==
  ShortEditAfterLastCall => suggestions = <<>>

====
